---- MODULE Spec2Model ----
(***************************************************************************)
(* Meal-access admission engine of the mess management system:            *)
(*   - the QR credential codec (apps/utils/qr_utils.py),                   *)
(*   - the scan view scanner_scan (apps/api/views.py),                     *)
(*   - the records it reads and writes (apps/core/models.py),              *)
(*   - the "Regenerate All QR Codes" procedure of the README.              *)
(* Strings are sequences of one-character strings, so that formatting,     *)
(* splitting and integer parsing are computed and not assumed.             *)
(***************************************************************************)
EXTENDS Integers, Sequences, FiniteSets, TLC

(***************************************************************************)
(* Bounds of the model.                                                    *)
(***************************************************************************)
\* registered students have ids 1..NumStudents
NumStudents == 2
\* number of runs of the regeneration procedure
MaxRotations == 1
\* the clock runs over the calendar days 1..MaxDay
MaxDay == 2
\* number of scan requests received in one behaviour
MaxScans == 2
\* number of operations of admins and students on the bot in one behaviour
MaxBotOps == 2
\* the codec harness mints under epochs 1..MaxEpoch
MaxEpoch == 2
\* calls of retryPendingScans that the scanner page makes
MaxPasses == 2
\* backup_to_sheets invocations and DLQ rows in one behaviour
MaxBackups == 2
\* runs of process_dlq_backups in one behaviour
MaxDlqRuns == 2
\* date ranges sent to mess_cut_handler in one behaviour
MaxCutRequests == 2
\* QR codes read by the scanner page in one behaviour
MaxClientScans == 3
\* calls of the admin endpoints of the API in one behaviour
MaxAdminCalls == 2

(***************************************************************************)
(* Characters and strings.                                                 *)
(***************************************************************************)
DigitChars == <<"0", "1", "2", "3", "4", "5", "6", "7", "8", "9">>

HexChars == {"0", "1", "2", "3", "4", "5", "6", "7", "8", "9",
             "a", "b", "c", "d", "e", "f"}

\* one character outside ASCII, written by its code point
NonAscii == "U+00E9"

IsDigit(c) == \E i \in 1..10 : DigitChars[i] = c

DigitVal(c) == (CHOOSE i \in 1..10 : DigitChars[i] = c) - 1

\* str(n) of a Python int, as the f-string of generate_qr_payload formats it
RECURSIVE ToStr(_)
ToStr(n) ==
    IF n < 0 THEN <<"-">> \o ToStr(0 - n)
    ELSE IF n < 10 THEN <<DigitChars[n + 1]>>
    ELSE ToStr(n \div 10) \o <<DigitChars[(n % 10) + 1]>>

\* "|".join(parts)
RECURSIVE Join(_)
Join(parts) ==
    IF Len(parts) = 0 THEN <<>>
    ELSE IF Len(parts) = 1 THEN parts[1]
    ELSE parts[1] \o <<"|">> \o Join(Tail(parts))

\* s.split('|'): always at least one part, an empty string gives <<"">>
RECURSIVE Split(_)
Split(s) ==
    IF \A i \in 1..Len(s) : s[i] # "|" THEN <<s>>
    ELSE LET k == CHOOSE i \in 1..Len(s) :
                     s[i] = "|" /\ \A j \in 1..(i - 1) : s[j] # "|"
         IN  <<SubSeq(s, 1, k - 1)>> \o Split(SubSeq(s, k + 1, Len(s)))

\* s.strip() for the blank character
RECURSIVE Strip(_)
Strip(s) ==
    IF Len(s) = 0 THEN s
    ELSE IF s[1] = " " THEN Strip(Tail(s))
    ELSE IF s[Len(s)] = " " THEN Strip(SubSeq(s, 1, Len(s) - 1))
    ELSE s

RECURSIVE DigitsValue(_)
DigitsValue(s) ==
    IF Len(s) = 0 THEN 0
    ELSE IF s[Len(s)] = "_" THEN DigitsValue(SubSeq(s, 1, Len(s) - 1))
    ELSE DigitsValue(SubSeq(s, 1, Len(s) - 1)) * 10 + DigitVal(s[Len(s)])

\* int(s) of Python: blanks stripped, an optional sign, then digits that may be
\* separated by single underscores; anything else raises ValueError (ok = FALSE)
ParseInt(s) ==
    LET t == Strip(s)
        signed == Len(t) > 0 /\ t[1] \in {"+", "-"}
        body == IF signed THEN Tail(t) ELSE t
        wellFormed ==
            /\ Len(body) > 0
            /\ IsDigit(body[1])
            /\ IsDigit(body[Len(body)])
            /\ \A i \in 1..Len(body) : IsDigit(body[i]) \/ body[i] = "_"
            /\ \A i \in 1..(Len(body) - 1) : ~(body[i] = "_" /\ body[i + 1] = "_")
    IN  IF ~wellFormed THEN [ok |-> FALSE, val |-> 0]
        ELSE [ok |-> TRUE,
              val |-> IF signed /\ t[1] = "-" THEN 0 - DigitsValue(body)
                      ELSE DigitsValue(body)]

(***************************************************************************)
(* HMAC-SHA256(secret, message).hexdigest(), idealised: a keyed digest     *)
(* without collisions whose output is a string of hex characters.  Every   *)
(* byte of the key and of the message is written as its two hex digits.    *)
(***************************************************************************)
ByteHex(c) ==
    IF IsDigit(c) THEN <<"3", c>>
    ELSE IF c = "|" THEN <<"7", "c">>
    ELSE IF c = "a" THEN <<"6", "1">>
    ELSE IF c = "b" THEN <<"6", "2">>
    ELSE IF c = "c" THEN <<"6", "3">>
    ELSE IF c = "d" THEN <<"6", "4">>
    ELSE IF c = "e" THEN <<"6", "5">>
    ELSE IF c = "f" THEN <<"6", "6">>
    ELSE IF c = "x" THEN <<"7", "8">>
    ELSE IF c = " " THEN <<"2", "0">>
    ELSE IF c = "+" THEN <<"2", "b">>
    ELSE IF c = "-" THEN <<"2", "d">>
    ELSE IF c = "_" THEN <<"5", "f">>
    ELSE <<"c", "3", "a", "9">>

RECURSIVE HexOf(_)
HexOf(s) == IF Len(s) = 0 THEN <<>> ELSE ByteHex(s[1]) \o HexOf(Tail(s))

hmac_hexdigest(secret, message) == HexOf(secret) \o HexOf(message)

\* str.isascii()
IsAscii(s) == \A i \in 1..Len(s) : s[i] # NonAscii

\* a comparison that stops one character short
compare_digest_short(a, b) ==
    IF IsAscii(a) /\ IsAscii(b)
    THEN [raised |-> FALSE,
          equal |-> Len(a) = Len(b) /\ \A i \in 1..(Len(a) - 1) : a[i] = b[i]]
    ELSE [raised |-> TRUE, equal |-> FALSE]


\* hmac.compare_digest(a, b) on str arguments: TypeError unless both are ASCII
compare_digest(a, b) ==
    IF IsAscii(a) /\ IsAscii(b) THEN [raised |-> FALSE, equal |-> a = b]
    ELSE [raised |-> TRUE, equal |-> FALSE]

\* settings.QR_SECRET of the deployment, and a key the deployment does not hold
QR_SECRET == <<"a">>
OtherSecret == <<"b">>

(***************************************************************************)
(* The credential codec.                                                   *)
(***************************************************************************)
None == "None"

MsgValid == "Valid"
MsgFormat == "Invalid payload format"
MsgVersion == "QR code version mismatch"
MsgSignature == "Invalid signature"
MsgError == "Verification error"

\* a payload signed over the student id in place of the whole payload data
generate_qr_payload_id_signed(version, student_id, issued_at, nonce, secret) ==
    LET payload_data ==
            Join(<<ToStr(version), ToStr(student_id), ToStr(issued_at), nonce>>)
        signature == hmac_hexdigest(secret, ToStr(student_id))
    IN  Join(<<payload_data, signature>>)

\* generate_qr_payload(student_id, nonce); the version read from Settings, the
\* clock and the secret are made explicit
generate_qr_payload(version, student_id, issued_at, nonce, secret) ==
    LET payload_data ==
            Join(<<ToStr(version), ToStr(student_id), ToStr(issued_at), nonce>>)
        signature == hmac_hexdigest(secret, payload_data)
    IN  Join(<<payload_data, signature>>)

\* settings.MESS_CONFIG['qr_expiry_buffer_hours']
qr_expiry_buffer_hours == 1

SecondsPerHour == 3600
SecondsPerDay == 86400

\* qr_age_hours = (current_time - int(issued_at)) / 3600 exceeds the buffer
too_old(current_time, issued_at) ==
    current_time - issued_at > qr_expiry_buffer_hours * SecondsPerHour

\* the pair (None, msg) that verify_qr_payload returns on a failure
Rejected(msg) == [is_none |-> TRUE, student_id |-> 0, msg |-> msg]

\* a verification that does not look at the version
verify_qr_payload_any_version(payload, current_version, secret, settingsFault, current_time) ==
    LET parts == Split(payload)
    IN  IF Len(parts) # 5 THEN Rejected(MsgFormat)
        ELSE
        LET payload_data == Join(<<parts[1], parts[2], parts[3], parts[4]>>)
            cmp == compare_digest(parts[5], hmac_hexdigest(secret, payload_data))
        IN  IF settingsFault THEN Rejected(MsgError)
            ELSE IF ~ParseInt(parts[1]).ok THEN Rejected(MsgError)
            ELSE IF cmp.raised THEN Rejected(MsgError)
            ELSE IF ~cmp.equal THEN Rejected(MsgSignature)
            ELSE IF ~ParseInt(parts[3]).ok THEN Rejected(MsgError)
            ELSE IF ~ParseInt(parts[2]).ok THEN Rejected(MsgError)
            ELSE [is_none |-> FALSE, student_id |-> ParseInt(parts[2]).val,
                  msg |-> MsgValid]

\* a verification that checks the signature before the version
verify_qr_payload_signature_first(payload, current_version, secret, settingsFault, current_time) ==
    LET parts == Split(payload)
    IN  IF Len(parts) # 5 THEN Rejected(MsgFormat)
        ELSE
        LET payload_data == Join(<<parts[1], parts[2], parts[3], parts[4]>>)
            cmp == compare_digest(parts[5], hmac_hexdigest(secret, payload_data))
        IN  IF settingsFault THEN Rejected(MsgError)
            ELSE IF cmp.raised THEN Rejected(MsgError)
            ELSE IF ~cmp.equal THEN Rejected(MsgSignature)
            ELSE IF ~ParseInt(parts[1]).ok THEN Rejected(MsgError)
            ELSE IF ParseInt(parts[1]).val # current_version THEN Rejected(MsgVersion)
            ELSE IF ~ParseInt(parts[3]).ok THEN Rejected(MsgError)
            ELSE IF ~ParseInt(parts[2]).ok THEN Rejected(MsgError)
            ELSE [is_none |-> FALSE, student_id |-> ParseInt(parts[2]).val,
                  msg |-> MsgValid]

\* a verification that rejects the tokens older than the buffer
verify_qr_payload_expiring(payload, current_version, secret, settingsFault, current_time) ==
    LET parts == Split(payload)
    IN  IF Len(parts) # 5 THEN Rejected(MsgFormat)
        ELSE
        LET payload_data == Join(<<parts[1], parts[2], parts[3], parts[4]>>)
            cmp == compare_digest(parts[5], hmac_hexdigest(secret, payload_data))
        IN  IF settingsFault THEN Rejected(MsgError)
            ELSE IF ~ParseInt(parts[1]).ok THEN Rejected(MsgError)
            ELSE IF ParseInt(parts[1]).val # current_version THEN Rejected(MsgVersion)
            ELSE IF cmp.raised THEN Rejected(MsgError)
            ELSE IF ~cmp.equal THEN Rejected(MsgSignature)
            ELSE IF ~ParseInt(parts[3]).ok THEN Rejected(MsgError)
            ELSE IF too_old(current_time, ParseInt(parts[3]).val)
            THEN Rejected("QR code expired")
            ELSE IF ~ParseInt(parts[2]).ok THEN Rejected(MsgError)
            ELSE [is_none |-> FALSE, student_id |-> ParseInt(parts[2]).val,
                  msg |-> MsgValid]

\* verify_qr_payload(payload); settingsFault: Settings.get_settings() raised;
\* current_time: int(time.time())
verify_qr_payload(payload, current_version, secret, settingsFault, current_time) ==
    LET parts == Split(payload)
    IN  IF Len(parts) # 5 THEN Rejected(MsgFormat)
        ELSE
        LET version == parts[1]
            student_id == parts[2]
            issued_at == parts[3]
            nonce == parts[4]
            signature == parts[5]
            payload_data == Join(<<version, student_id, issued_at, nonce>>)
            expected_signature == hmac_hexdigest(secret, payload_data)
            cmp == compare_digest(signature, expected_signature)
        IN  IF settingsFault THEN Rejected(MsgError)
            ELSE IF ~ParseInt(version).ok THEN Rejected(MsgError)
            ELSE IF ParseInt(version).val # current_version THEN Rejected(MsgVersion)
            ELSE IF cmp.raised THEN Rejected(MsgError)
            ELSE IF ~cmp.equal THEN Rejected(MsgSignature)
            ELSE IF ~ParseInt(issued_at).ok THEN Rejected(MsgError)
            ELSE
            LET valid == IF ~ParseInt(student_id).ok THEN Rejected(MsgError)
                         ELSE [is_none |-> FALSE,
                               student_id |-> ParseInt(student_id).val,
                               msg |-> MsgValid]
            \* if qr_age_hours > qr_expiry_buffer_hours: pass
            IN  IF too_old(current_time, ParseInt(issued_at).val) THEN valid
                ELSE valid

(***************************************************************************)
(* State.                                                                  *)
(***************************************************************************)
VARIABLES
    qr_secret_version,  \* Settings.qr_secret_version
    students,           \* Student rows: id -> [status, qr_nonce, qr_version]
    payments,           \* Payment rows
    mess_cuts,          \* MessCut rows
    mess_closures,      \* MessClosure rows
    scan_events,        \* ScanEvent rows in insertion order
    clock,              \* the calendar day of timezone.now()
    held,               \* the QR payload each student was last sent by the bot
    req,                \* the scanner_scan requests, in order of arrival
    bot_ops,            \* number of bot operations so far
    regen,              \* the "Regenerate All QR Codes" procedure
    notifications,      \* send_meal_scan_notification tasks enqueued
    codec,              \* harness applying the codec to drawn inputs
    audit_logs,         \* AuditLog rows in insertion order
    regen_other,        \* the same procedure, started from a second shell
    backups,            \* backup_to_sheets tasks enqueued
    dlq_logs,           \* DLQLog rows in insertion order
    dlq_run,            \* the runs of process_dlq_backups
    online,             \* navigator.onLine of the scanner page
    pendingScans,       \* localStorage 'pendingScans' of the scanner page
    passes,             \* the calls of retryPendingScans
    scanned,            \* the scans of the scanner page: stored, answered by the server
    admin_calls,        \* the calls of the admin endpoints, with their responses
    cut_requests        \* the date ranges sent to mess_cut_handler, with the replies

\* the variables of the requests, the bot and the codec
coreVars == <<qr_secret_version, students, payments, mess_cuts, mess_closures,
              scan_events, clock, held, req, bot_ops, regen, notifications, codec,
              audit_logs, regen_other>>

backupVars == <<backups, dlq_logs, dlq_run>>
clientVars == <<online, pendingScans, passes, scanned>>
otherVars == <<backupVars, clientVars, admin_calls, cut_requests>>

vars == <<qr_secret_version, students, payments, mess_cuts, mess_closures,
          scan_events, clock, held, req, bot_ops, regen, notifications, codec,
          audit_logs, regen_other, otherVars>>

dbVars == <<qr_secret_version, students, payments, mess_cuts, mess_closures,
            scan_events, clock, held, bot_ops, regen, notifications, audit_logs, regen_other, otherVars>>

IdleRun == [pc |-> "idle", todo |-> <<>>]
IdlePass == [pc |-> "idle", pending |-> <<>>, next |-> 1]

\* no backup task, no DLQ row, the scanner page online with nothing stored, no
\* call of an admin endpoint, no date range sent
OthersIdle ==
    /\ backups = <<>>
    /\ dlq_logs = <<>>
    /\ dlq_run = [r \in (1..MaxDlqRuns) |-> IdleRun]
    /\ online = TRUE
    /\ pendingScans = <<>>
    /\ passes = [p \in (1..MaxPasses) |-> IdlePass]
    /\ scanned = <<>>
    /\ admin_calls = <<>>
    /\ cut_requests = <<>>

\* int(time.time()), in seconds, at the start of the day of the clock
time_time == clock * SecondsPerDay

StudentIds == 1..NumStudents
Requests == 1..MaxScans
Days == 1..MaxDay

\* secrets.token_hex(16), shortened to one hex character
Nonces == {<<"c">>, <<"d">>}

\* meals a scanner front-end sends, the last is not a meal
MealInputs == {"LUNCH", "DINNER", "SNACK"}

\* the payments on record: student 1 paid and verified for every day, student 2
\* paid and verified for day 1, uploaded and not yet reviewed from day 2, with
\* older payments that were denied or never uploaded
PaymentTable ==
    {[student |-> 1, cycle_start |-> 1, cycle_end |-> MaxDay, status |-> "VERIFIED"],
     [student |-> 2, cycle_start |-> 1, cycle_end |-> 1, status |-> "VERIFIED"],
     [student |-> 2, cycle_start |-> 2, cycle_end |-> MaxDay, status |-> "UPLOADED"],
     [student |-> 2, cycle_start |-> 0, cycle_end |-> MaxDay, status |-> "DENIED"],
     [student |-> 2, cycle_start |-> -1, cycle_end |-> MaxDay, status |-> "NONE"]}

\* payloads presented to a scanner that the bot did not send: signed with the
\* deployment's secret for an id without a Student row, signed with another
\* secret, not a payload at all, and nothing
UnknownStudentPayload ==
    generate_qr_payload(1, NumStudents + 1, 1, <<"c">>, QR_SECRET)
ForgedPayload == generate_qr_payload(1, 1, 1, <<"c">>, OtherSecret)
JunkPayload == <<"x">>
EmptyPayload == <<>>

OtherPayloads == {UnknownStudentPayload, ForgedPayload, JunkPayload, EmptyPayload}

\* the Authorization header of a request: none, or a scheme and a token
NoHeader == [scheme |-> "", token |-> 0]
Bearer(token) == [scheme |-> "Bearer", token |-> token]

\* a request: the locals of scanner_scan, its response, and what is remembered
\* of its run: the day it arrived, the version Settings held when the payload
\* was verified, whether the ledger then held an ALLOWED scan of the meal, the
\* checks that failed, the rows it wrote and the student the bot had sent the
\* payload to (0 when the payload did not come from the bot), and, where the
\* authentication is followed, the header it carried and the day it was read
\* (allowed_today: whether the ledger held an ALLOWED scan of the meal on the
\* day the request took as today when the duplicate check ran)
IdleReq ==
    [pc |-> "idle", version |-> <<>>, nonce |-> <<>>, meal |-> "", student_id |-> 0,
     student_nonce |-> <<>>, today |-> 0, today_start |-> 0, is_cut |-> FALSE,
     result |-> None, reason |-> None,
     arrived |-> 0, seen_version |-> 0, prior_allowed |-> FALSE, failed |-> {},
     written |-> <<>>, minted_for |-> 0, student_snapshot |-> 0,
     auth |-> NoHeader, authed_on |-> 0, allowed_today |-> FALSE]

\* a response overtaken by a change of the records it was computed from
Forgotten == [IdleReq EXCEPT !.pc = "done", !.result = "forgotten"]

IdleRegen == [pc |-> "idle", version |-> 0, todo |-> <<>>, runs |-> 0]

IdleCodec == [phase |-> "off"]

Init ==
    /\ qr_secret_version = 1
    /\ students = [s \in StudentIds |->
                      [status |-> "PENDING", qr_nonce |-> <<"c">>, qr_version |-> 1]]
    /\ payments = PaymentTable
    /\ mess_cuts = {}
    /\ mess_closures = {}
    /\ scan_events = <<>>
    /\ clock = 1
    /\ held = [s \in StudentIds |-> EmptyPayload]
    /\ req = [w \in Requests |-> IdleReq]
    /\ bot_ops = 0
    /\ regen = IdleRegen
    /\ notifications = <<>>
    /\ audit_logs = <<>>
    /\ regen_other = IdleRegen
    /\ OthersIdle
    /\ codec = IdleCodec

(***************************************************************************)
(* The environment: registrations reviewed, QR payloads sent, cuts,        *)
(* closures, the clock.  A request reads each table other than scan_events *)
(* in one step, so that a change of a table during a request is seen by it *)
(* as a change before or after it: the bot operations are taken between    *)
(* requests.  The clock, read three times by a request, runs freely.       *)
(***************************************************************************)
Quiet == \A w \in Requests : req[w].pc \in {"idle", "done"}

\* the responses given before a change of the records are no longer compared
\* with the records
Disturbed == [w \in Requests |-> IF req[w].pc = "done" THEN Forgotten ELSE req[w]]

\* admin_handler "admin_approve_<id>": status APPROVED, the QR is sent
AdminApprove(s) ==
    /\ Quiet
    /\ bot_ops < MaxBotOps
    /\ bot_ops' = bot_ops + 1
    /\ students[s].status # "APPROVED"
    /\ students' = [students EXCEPT ![s].status = "APPROVED"]
    /\ held' = [held EXCEPT ![s] =
                   generate_qr_payload(qr_secret_version, s, time_time,
                                       students[s].qr_nonce, QR_SECRET)]
    /\ req' = Disturbed
    /\ UNCHANGED <<qr_secret_version, payments, mess_cuts, mess_closures,
                   scan_events, clock, regen, notifications, codec,
                   audit_logs, regen_other, otherVars>>

\* admin_handler "admin_deny_<id>"
AdminDeny(s) ==
    /\ Quiet
    /\ bot_ops < MaxBotOps
    /\ bot_ops' = bot_ops + 1
    /\ students[s].status # "DENIED"
    /\ students' = [students EXCEPT ![s].status = "DENIED"]
    /\ req' = Disturbed
    /\ UNCHANGED <<qr_secret_version, payments, mess_cuts, mess_closures,
                   scan_events, clock, held, regen, notifications, codec,
                   audit_logs, regen_other, otherVars>>

\* qr_handler: an approved student asks the bot for the QR
QrHandler(s) ==
    /\ Quiet
    /\ bot_ops < MaxBotOps
    /\ bot_ops' = bot_ops + 1
    /\ students[s].status = "APPROVED"
    /\ held' = [held EXCEPT ![s] =
                   generate_qr_payload(qr_secret_version, s, time_time,
                                       students[s].qr_nonce, QR_SECRET)]
    /\ held'[s] # held[s]
    /\ UNCHANGED <<qr_secret_version, students, payments, mess_cuts, mess_closures,
                   scan_events, clock, req, regen, notifications, codec,
                   audit_logs, regen_other, otherVars>>

\* mess_cut_handler, before the cutoff time: a cut from tomorrow at the earliest
MessCutHandler(s, from_date, to_date) ==
    /\ Quiet
    /\ bot_ops < MaxBotOps
    /\ bot_ops' = bot_ops + 1
    /\ students[s].status = "APPROVED"
    /\ from_date >= clock + 1
    /\ to_date >= from_date
    /\ mess_cuts' = mess_cuts \cup
           {[student |-> s, from_date |-> from_date, to_date |-> to_date]}
    /\ mess_cuts' # mess_cuts
    /\ req' = Disturbed
    /\ UNCHANGED <<qr_secret_version, students, payments, mess_closures,
                   scan_events, clock, held, regen, notifications, codec,
                   audit_logs, regen_other, otherVars>>

\* README "Set Mess Closure"
SetMessClosure(from_date, to_date) ==
    /\ Quiet
    /\ bot_ops < MaxBotOps
    /\ bot_ops' = bot_ops + 1
    /\ from_date <= to_date
    /\ mess_closures' = mess_closures \cup
           {[from_date |-> from_date, to_date |-> to_date]}
    /\ mess_closures' # mess_closures
    /\ req' = Disturbed
    /\ UNCHANGED <<qr_secret_version, students, payments, mess_cuts,
                   scan_events, clock, held, regen, notifications, codec,
                   audit_logs, regen_other, otherVars>>

\* a payments table without the constraint
unique_together_not_enforced(rows, student, cycle_start) == TRUE

\* Payment.Meta.unique_together = ['student', 'cycle_start']: the insert of a
\* row is refused when a row with the pair exists
unique_together(rows, student, cycle_start) ==
    ~\E p \in rows : p.student = student /\ p.cycle_start = cycle_start

\* payment_handler, the screenshot received: Payment.objects.create(...,
\* status='UPLOADED'); an IntegrityError is caught and answered "Upload
\* failed" with the table as it was
PaymentHandler(s, cycle_start, cycle_end) ==
    /\ Quiet
    /\ bot_ops < MaxBotOps
    /\ bot_ops' = bot_ops + 1
    /\ IF unique_together(payments, s, cycle_start)
       THEN /\ payments' = payments \cup
                   {[student |-> s, cycle_start |-> cycle_start,
                     cycle_end |-> cycle_end, status |-> "UPLOADED"]}
            /\ req' = Disturbed
       ELSE UNCHANGED <<payments, req>>
    /\ UNCHANGED <<qr_secret_version, students, mess_cuts, mess_closures,
                   scan_events, clock, held, regen, notifications, codec,
                   audit_logs, regen_other, otherVars>>

\* midnight passes
Tick ==
    /\ clock < MaxDay
    /\ clock' = clock + 1
    /\ UNCHANGED <<qr_secret_version, students, payments, mess_cuts, mess_closures,
                   scan_events, held, req, bot_ops, regen, notifications, codec,
                   audit_logs, regen_other, otherVars>>

(***************************************************************************)
(* scanner_scan, one action per database access.                           *)
(***************************************************************************)
\* a payment lookup that forgets the status filter
valid_payment_any_status(s, today) ==
    \E p \in payments :
        p.student = s /\ p.cycle_start <= today /\ p.cycle_end >= today

\* a payment lookup whose window ends before its last day
valid_payment_open_end(s, today) ==
    \E p \in payments :
        /\ p.student = s
        /\ p.status = "VERIFIED"
        /\ p.cycle_start <= today
        /\ p.cycle_end > today

\* Payment.objects.filter(student, status='VERIFIED', cycle_start <= today,
\*                        cycle_end >= today).first()
valid_payment(s, today) ==
    \E p \in payments :
        /\ p.student = s
        /\ p.status = "VERIFIED"
        /\ p.cycle_start <= today
        /\ p.cycle_end >= today

\* a cut lookup that forgets the student
is_cut_any_student(s, today) ==
    \E c \in mess_cuts : c.from_date <= today /\ c.to_date >= today

\* MessCut.objects.filter(student, from_date <= today, to_date >= today).exists()
is_cut(s, today) ==
    \E c \in mess_cuts : c.student = s /\ c.from_date <= today /\ c.to_date >= today

\* MessClosure.objects.filter(from_date <= today, to_date >= today).exists()
is_closed(today) ==
    \E c \in mess_closures : c.from_date <= today /\ c.to_date >= today

\* a duplicate lookup whose day starts after the scans of the day
existing_scan_late_start(s, meal, today_start) ==
    \E i \in 1..Len(scan_events) :
        /\ scan_events[i].student = s
        /\ scan_events[i].meal = meal
        /\ scan_events[i].scanned_at > today_start
        /\ scan_events[i].result = "ALLOWED"

\* a duplicate lookup that forgets the meal
existing_scan_any_meal(s, meal, today_start) ==
    \E i \in 1..Len(scan_events) :
        /\ scan_events[i].student = s
        /\ scan_events[i].scanned_at = today_start
        /\ scan_events[i].result = "ALLOWED"

\* ScanEvent.objects.filter(student, meal, scanned_at in [today_start,
\*                          today_start + 1 day), result='ALLOWED').first()
existing_scan(s, meal, today_start) ==
    \E i \in 1..Len(scan_events) :
        /\ scan_events[i].student = s
        /\ scan_events[i].meal = meal
        /\ scan_events[i].scanned_at = today_start
        /\ scan_events[i].result = "ALLOWED"

\* the row ScanEvent.objects.create(...) inserts; scanned_at is auto_now_add
NewScanEvent(s, meal, result) ==
    [student |-> s, meal |-> meal, scanned_at |-> clock, result |-> result]

\* what the records say, written out for the statements about the requests
ApprovedNow(s) == s \in StudentIds /\ students[s].status = "APPROVED"

PaidOn(s, day) ==
    \E p \in payments : p.student = s /\ p.status = "VERIFIED"
                         /\ p.cycle_start <= day /\ day <= p.cycle_end

ExcludedOn(s, day) ==
    \/ \E c \in mess_cuts : c.student = s /\ c.from_date <= day /\ day <= c.to_date
    \/ \E c \in mess_closures : c.from_date <= day /\ day <= c.to_date

AllowedOn(s, meal, day) ==
    \E i \in 1..Len(scan_events) :
        scan_events[i] = [student |-> s, meal |-> meal, scanned_at |-> day,
                          result |-> "ALLOWED"]

\* the request r with the check noted as failed when it did fail
Noted(r, check, didFail) ==
    [r EXCEPT !.failed = IF didFail THEN @ \cup {check} ELSE @]

\* a response without the snapshot
student_snapshot_omitted(r) == r

\* 'student_snapshot': StudentSnapshotSerializer(student).data, the snapshot
\* being known by the id of the student it describes
student_snapshot(r) == [r EXCEPT !.student_snapshot = r.student_id]

\* the request ends with this response
Respond(r, result, reason) ==
    [r EXCEPT !.pc = "done", !.result = result, !.reason = reason]

\* a request check that lets every meal through
invalid_request_any_meal(qr_data, meal) == qr_data = EmptyPayload

\* if not qr_data or meal not in ['BREAKFAST', 'LUNCH', 'DINNER']
invalid_request(qr_data, meal) ==
    qr_data = EmptyPayload \/ meal \notin {"BREAKFAST", "LUNCH", "DINNER"}

\* a status check that lets a denied student through
status_blocks_pending_only(status) == status = "PENDING"

\* if student.status != 'APPROVED'
status_blocks(status) == status # "APPROVED"

\* if not student_id
not_student_id(v) == v.is_none \/ v.student_id = 0

\* StaffToken rows: a token without expiry, one that expires with day 1 and a
\* revoked one; the tokens are known by their number, as are their hashes
NoExpiry == 0 - 1
StaffTokenTable ==
    {[token |-> 1, active |-> TRUE, expires_at |-> NoExpiry],
     [token |-> 2, active |-> TRUE, expires_at |-> 1],
     [token |-> 3, active |-> FALSE, expires_at |-> NoExpiry]}

\* the headers sent: none, another scheme, the three tokens and an unknown one
Headers == {NoHeader, [scheme |-> "Basic", token |-> 1]} \cup {Bearer(t) : t \in 1..4}

\* an authentication that does not look at the expiry
authenticate_ignoring_expiry(header, now) ==
    IF header.scheme # "Bearer" THEN [user |-> "anonymous", detail |-> None]
    ELSE IF ~\E row \in StaffTokenTable : row.token = header.token /\ row.active
    THEN [user |-> "failed", detail |-> "Invalid token"]
    ELSE [user |-> "staff", detail |-> None]

\* StaffTokenAuthentication.authenticate: None without a Bearer header, the
\* staff user for an active token that is not expired, AuthenticationFailed
\* otherwise
authenticate(header, now) ==
    IF header.scheme # "Bearer" THEN [user |-> "anonymous", detail |-> None]
    ELSE IF ~\E row \in StaffTokenTable : row.token = header.token /\ row.active
    THEN [user |-> "failed", detail |-> "Invalid token"]
    ELSE LET staff_token == CHOOSE row \in StaffTokenTable :
                                row.token = header.token /\ row.active
         IN  IF staff_token.expires_at # NoExpiry /\ now > staff_token.expires_at
             THEN [user |-> "failed", detail |-> "Token expired"]
             ELSE [user |-> "staff", detail |-> None]

\* IsStaffUser.has_permission: hasattr(request.user, 'staff_token')
has_permission(user) == user = "staff"

\* the request is authenticated and permitted, or refused, before scanner_scan
\* runs
Authenticate(w, header) ==
    /\ req[w].pc = "arrived"
    /\ \A u \in Requests : u < w => req[u].pc = "done"
    /\ LET a == authenticate(header, clock)
           r == [req[w] EXCEPT !.auth = header, !.authed_on = clock]
       IN  req' = [req EXCEPT ![w] =
               IF has_permission(a.user) THEN [r EXCEPT !.pc = "idle"]
               ELSE Respond(r, "HTTP_403", a.detail)]
    /\ UNCHANGED dbVars
    /\ UNCHANGED codec

\* lines 20-36: the request is read and the payload verified
ScanVerify(w, qr_data, meal, settingsFault, sequential) ==
    /\ req[w].pc = "idle"
    /\ \A u \in Requests : u < w => req[u].pc # "idle"
    /\ sequential => Quiet
    /\ LET v == verify_qr_payload(qr_data, qr_secret_version, QR_SECRET,
                                  settingsFault, time_time)
           parts == Split(qr_data)
           r0 == [req[w] EXCEPT
                     !.meal = meal,
                     !.version = IF Len(parts) = 5 THEN parts[1] ELSE <<>>,
                     !.nonce = IF Len(parts) = 5 THEN parts[4] ELSE <<>>,
                     !.arrived = clock,
                     !.seen_version = qr_secret_version,
                     !.minted_for =
                         IF \E s \in StudentIds : held[s] = qr_data
                         THEN CHOOSE s \in StudentIds : held[s] = qr_data
                         ELSE 0]
       IN  req' = [req EXCEPT ![w] =
               IF invalid_request(qr_data, meal)
               THEN Respond([req[w] EXCEPT !.meal = meal, !.arrived = clock],
                            "HTTP_400", "Invalid request data")
               ELSE IF not_student_id(v)
               THEN Respond(Noted(r0, "verify", v.is_none),
                            "BLOCKED_QR_INVALID", v.msg)
               ELSE [Noted(r0, "verify", v.is_none)
                        EXCEPT !.pc = "student", !.student_id = v.student_id,
                               !.prior_allowed =
                                   AllowedOn(v.student_id, meal, clock)]]
    /\ UNCHANGED dbVars
    /\ UNCHANGED codec

\* a student lookup that records the scan of an unknown student
ScanStudent_recording(w) ==
    /\ req[w].pc = "student"
    /\ req' = [req EXCEPT ![w] =
           IF req[w].student_id \notin StudentIds
           THEN Respond([Noted(@, "student", TRUE)
                            EXCEPT !.written = Append(@, "BLOCKED_STUDENT_NOT_FOUND")],
                        "BLOCKED_STUDENT_NOT_FOUND", "Student not found")
           ELSE IF status_blocks(students[req[w].student_id].status)
           THEN [Noted(@, "status", ~ApprovedNow(req[w].student_id))
                    EXCEPT !.pc = "write_status",
                           !.student_nonce = students[req[w].student_id].qr_nonce]
           ELSE [Noted(@, "status", ~ApprovedNow(req[w].student_id))
                    EXCEPT !.pc = "payment",
                           !.student_nonce = students[req[w].student_id].qr_nonce]]
    /\ scan_events' =
           IF req[w].student_id \notin StudentIds
           THEN Append(scan_events, NewScanEvent(req[w].student_id, req[w].meal,
                                                 "BLOCKED_STUDENT_NOT_FOUND"))
           ELSE scan_events
    /\ UNCHANGED <<qr_secret_version, students, payments, mess_cuts, mess_closures,
                   clock, held, bot_ops, regen, notifications, codec,
                   audit_logs, regen_other, otherVars>>

\* lines 38-48: the student is loaded and the status looked at
ScanStudent(w) ==
    /\ req[w].pc = "student"
    /\ req' = [req EXCEPT ![w] =
           IF req[w].student_id \notin StudentIds
           THEN Respond(Noted(@, "student", TRUE),
                        "BLOCKED_STUDENT_NOT_FOUND", "Student not found")
           ELSE IF status_blocks(students[req[w].student_id].status)
           THEN [Noted(@, "status", ~ApprovedNow(req[w].student_id))
                    EXCEPT !.pc = "write_status",
                           !.student_nonce = students[req[w].student_id].qr_nonce]
           ELSE [Noted(@, "status", ~ApprovedNow(req[w].student_id))
                    EXCEPT !.pc = "payment",
                           !.student_nonce = students[req[w].student_id].qr_nonce]]
    /\ UNCHANGED dbVars
    /\ UNCHANGED codec

\* lines 61-70: today is read from the clock, the payment looked up
ScanPayment(w) ==
    /\ req[w].pc = "payment"
    /\ req' = [req EXCEPT ![w] =
           IF ~valid_payment(req[w].student_id, clock)
           THEN [Noted(@, "payment", ~PaidOn(req[w].student_id, clock))
                    EXCEPT !.today = clock, !.pc = "write_nopay"]
           ELSE [Noted(@, "payment", ~PaidOn(req[w].student_id, clock))
                    EXCEPT !.today = clock, !.pc = "cut"]]
    /\ UNCHANGED dbVars
    /\ UNCHANGED codec

\* lines 83-88: the student's cuts
ScanCut(w) ==
    /\ req[w].pc = "cut"
    /\ req' = [req EXCEPT ![w] =
           [@ EXCEPT !.is_cut = is_cut(req[w].student_id, req[w].today),
                     !.pc = "closure"]]
    /\ UNCHANGED dbVars
    /\ UNCHANGED codec

\* lines 90-96: the closures
ScanClosure(w) ==
    /\ req[w].pc = "closure"
    /\ req' = [req EXCEPT ![w] =
           IF req[w].is_cut \/ is_closed(req[w].today)
           THEN [Noted(@, "exclusion", ExcludedOn(req[w].student_id, req[w].today))
                    EXCEPT !.pc = "write_cut",
                           !.reason = IF is_closed(req[w].today) THEN "Mess closed"
                                      ELSE "Mess cut applied"]
           ELSE [Noted(@, "exclusion", ExcludedOn(req[w].student_id, req[w].today))
                    EXCEPT !.pc = "dup"]]
    /\ UNCHANGED dbVars
    /\ UNCHANGED codec

BlockedResult(pc) ==
    IF pc = "write_status" THEN "BLOCKED_STATUS"
    ELSE IF pc = "write_nopay" THEN "BLOCKED_NO_PAYMENT"
    ELSE "BLOCKED_CUT"

BlockedReason(r) ==
    IF r.pc = "write_status" THEN "Student not approved"
    ELSE IF r.pc = "write_nopay" THEN "No valid payment for current cycle"
    ELSE r.reason

\* a write that keeps one row per student and meal: an earlier row of the
\* student and meal is overwritten
ScanWriteBlocked_replacing(w) ==
    /\ req[w].pc \in {"write_status", "write_nopay", "write_cut"}
    /\ LET row == NewScanEvent(req[w].student_id, req[w].meal,
                               BlockedResult(req[w].pc))
           earlier == {i \in 1..Len(scan_events) :
                          /\ scan_events[i].student = row.student
                          /\ scan_events[i].meal = row.meal}
       IN  /\ scan_events' =
                  IF earlier = {} THEN Append(scan_events, row)
                  ELSE [scan_events EXCEPT ![CHOOSE i \in earlier : TRUE] = row]
           /\ req' = [req EXCEPT ![w] =
                  Respond(student_snapshot(
                              [@ EXCEPT !.written = Append(@, row.result)]),
                          row.result, BlockedReason(req[w]))]
    /\ UNCHANGED <<qr_secret_version, students, payments, mess_cuts, mess_closures,
                   clock, held, bot_ops, regen, notifications, codec,
                   audit_logs, regen_other, otherVars>>

\* a blocked scan that is recorded and notified to the student
ScanWriteBlocked_notifying(w) ==
    /\ req[w].pc \in {"write_status", "write_nopay", "write_cut"}
    /\ LET row == NewScanEvent(req[w].student_id, req[w].meal,
                               BlockedResult(req[w].pc))
       IN  /\ scan_events' = Append(scan_events, row)
           /\ req' = [req EXCEPT ![w] =
                  Respond(student_snapshot(
                              [@ EXCEPT !.written = Append(@, row.result)]),
                          row.result, BlockedReason(req[w]))]
    /\ notifications' = Append(notifications,
                               [student |-> req[w].student_id, meal |-> req[w].meal,
                                retries |-> 0])
    /\ UNCHANGED <<qr_secret_version, students, payments, mess_cuts, mess_closures,
                   clock, held, bot_ops, regen, codec,
                   audit_logs, regen_other, otherVars>>

\* lines 49-59, 71-81, 97-108: the blocked scan is recorded and reported
ScanWriteBlocked(w) ==
    /\ req[w].pc \in {"write_status", "write_nopay", "write_cut"}
    /\ LET row == NewScanEvent(req[w].student_id, req[w].meal,
                               BlockedResult(req[w].pc))
       IN  /\ scan_events' = Append(scan_events, row)
           /\ req' = [req EXCEPT ![w] =
                  Respond(student_snapshot(
                              [@ EXCEPT !.written = Append(@, row.result)]),
                          row.result, BlockedReason(req[w]))]
    /\ UNCHANGED <<qr_secret_version, students, payments, mess_cuts, mess_closures,
                   clock, held, bot_ops, regen, notifications, codec,
                   audit_logs, regen_other, otherVars>>

\* a duplicate check that records the duplicate scan
ScanDuplicate_recording(w) ==
    /\ req[w].pc = "dup"
    /\ req' = [req EXCEPT ![w] =
           IF existing_scan(req[w].student_id, req[w].meal, clock)
           THEN Respond(student_snapshot(
                            [Noted(@, "duplicate",
                                   AllowedOn(req[w].student_id, req[w].meal, clock))
                                EXCEPT !.today_start = clock,
                                       !.allowed_today =
                                           AllowedOn(req[w].student_id, req[w].meal,
                                                     req[w].today),
                                       !.written = Append(@, "BLOCKED_DUPLICATE")]),
                        "BLOCKED_DUPLICATE", "already served today")
           ELSE [Noted(@, "duplicate",
                       AllowedOn(req[w].student_id, req[w].meal, clock))
                    EXCEPT !.today_start = clock, !.pc = "write_allowed",
                            !.allowed_today =
                                AllowedOn(req[w].student_id, req[w].meal,
                                          req[w].today)]]
    /\ scan_events' =
           IF existing_scan(req[w].student_id, req[w].meal, clock)
           THEN Append(scan_events, NewScanEvent(req[w].student_id, req[w].meal,
                                                 "BLOCKED_DUPLICATE"))
           ELSE scan_events
    /\ UNCHANGED <<qr_secret_version, students, payments, mess_cuts, mess_closures,
                   clock, held, bot_ops, regen, notifications, codec,
                   audit_logs, regen_other, otherVars>>

\* lines 110-127: the start of today is read from the clock, an ALLOWED scan
\* of the meal on that day looked up
ScanDuplicate(w) ==
    /\ req[w].pc = "dup"
    /\ req' = [req EXCEPT ![w] =
           IF existing_scan(req[w].student_id, req[w].meal, clock)
           THEN Respond(student_snapshot(
                            [Noted(@, "duplicate",
                                   AllowedOn(req[w].student_id, req[w].meal, clock))
                                EXCEPT !.today_start = clock,
                                       !.allowed_today =
                                           AllowedOn(req[w].student_id, req[w].meal,
                                                     req[w].today)]),
                        "BLOCKED_DUPLICATE", "already served today")
           ELSE [Noted(@, "duplicate",
                       AllowedOn(req[w].student_id, req[w].meal, clock))
                    EXCEPT !.today_start = clock, !.pc = "write_allowed",
                            !.allowed_today =
                                AllowedOn(req[w].student_id, req[w].meal,
                                          req[w].today)]]
    /\ UNCHANGED dbVars
    /\ UNCHANGED codec

\* lines 129-136: the admission is recorded
ScanWriteAllowed(w) ==
    /\ req[w].pc = "write_allowed"
    /\ LET row == NewScanEvent(req[w].student_id, req[w].meal, "ALLOWED")
       IN  /\ scan_events' = Append(scan_events, row)
           /\ req' = [req EXCEPT ![w] =
                  [@ EXCEPT !.written = Append(@, row.result), !.pc = "notify"]]
    /\ UNCHANGED <<qr_secret_version, students, payments, mess_cuts, mess_closures,
                   clock, held, bot_ops, regen, notifications, codec,
                   audit_logs, regen_other, otherVars>>

\* lines 138-146: the notification task is enqueued, the admission reported
ScanNotify(w) ==
    /\ req[w].pc = "notify"
    /\ notifications' = Append(notifications,
                               [student |-> req[w].student_id, meal |-> req[w].meal,
                                retries |-> 0])
    /\ req' = [req EXCEPT ![w] = Respond(student_snapshot(@), "ALLOWED", None)]
    /\ UNCHANGED <<qr_secret_version, students, payments, mess_cuts, mess_closures,
                   scan_events, clock, held, bot_ops, regen, codec,
                   audit_logs, regen_other, otherVars>>

\* a database access, or the enqueueing, raises: nothing in scanner_scan
\* catches it and the request ends with a server error
ScanFault(w) ==
    /\ req[w].pc \notin {"arrived", "idle", "done"}
    /\ req' = [req EXCEPT ![w] =
           Respond(Noted(@, "fault", req[w].pc # "notify"), "HTTP_500", None)]
    /\ UNCHANGED dbVars
    /\ UNCHANGED codec

\* @shared_task(bind=True, max_retries=3)
max_retries == 3

\* a retry test that allows one retry more
should_retry_once_more(retries) == retries <= max_retries

\* if self.request.retries < self.max_retries
should_retry(retries) == retries < max_retries

\* the Celery worker runs send_meal_scan_notification and one attempt of
\* send_telegram_message for the oldest task: the message is sent and the
\* audit log written, or the attempt fails and the task is enqueued again
\* with one retry more, or, the retries used up, the failure is written to
\* the audit log
SendTelegramMessage(sent) ==
    /\ Len(notifications) > 0
    /\ LET task == Head(notifications)
       IN  IF sent
           THEN /\ notifications' = Tail(notifications)
                /\ audit_logs' = Append(audit_logs,
                       [actor_type |-> "SYSTEM", event_type |-> "NOTIFICATION_SENT"])
           ELSE IF should_retry(task.retries)
           THEN /\ notifications' = Append(Tail(notifications),
                                           [task EXCEPT !.retries = @ + 1])
                /\ UNCHANGED audit_logs
           ELSE /\ notifications' = Tail(notifications)
                /\ audit_logs' = Append(audit_logs,
                       [actor_type |-> "SYSTEM", event_type |-> "NOTIFICATION_FAILED"])
    /\ UNCHANGED <<qr_secret_version, students, payments, mess_cuts, mess_closures,
                   scan_events, clock, held, req, bot_ops, regen, codec,
                   regen_other, otherVars>>

(***************************************************************************)
(* README, "Regenerate All QR Codes".                                      *)
(***************************************************************************)
\* settings = Settings.get_settings()
RegenLoad ==
    /\ regen.pc = "idle"
    /\ regen.runs < MaxRotations
    /\ regen' = [regen EXCEPT !.pc = "loaded", !.version = qr_secret_version]
    /\ UNCHANGED <<qr_secret_version, students, payments, mess_cuts, mess_closures,
                   scan_events, clock, held, req, bot_ops, notifications, codec,
                   audit_logs, regen_other, otherVars>>

\* settings.qr_secret_version += 1; settings.save()
RegenSave ==
    /\ regen.pc = "loaded"
    /\ qr_secret_version' = regen.version + 1
    /\ regen' = [regen EXCEPT !.pc = "saved", !.version = regen.version + 1]
    /\ req' = Disturbed
    /\ UNCHANGED <<students, payments, mess_cuts, mess_closures,
                   scan_events, clock, held, bot_ops, notifications, codec,
                   audit_logs, regen_other, otherVars>>

\* the approved students, in id order
RECURSIVE ApprovedFrom(_)
ApprovedFrom(s) ==
    IF s > NumStudents THEN <<>>
    ELSE IF students[s].status = "APPROVED" THEN <<s>> \o ApprovedFrom(s + 1)
    ELSE ApprovedFrom(s + 1)

\* students = Student.objects.filter(status='APPROVED'), evaluated by the loop
RegenQuery ==
    /\ regen.pc = "saved"
    /\ regen' = [regen EXCEPT !.pc = "loop", !.todo = ApprovedFrom(1)]
    /\ UNCHANGED <<qr_secret_version, students, payments, mess_cuts, mess_closures,
                   scan_events, clock, held, req, bot_ops, notifications, codec,
                   audit_logs, regen_other, otherVars>>

\* the loop body: a new nonce, the new version, student.save() of the row as
\* the query loaded it
RegenStudent(nonce) ==
    /\ regen.pc = "loop"
    /\ Len(regen.todo) > 0
    /\ LET s == Head(regen.todo)
       IN  /\ nonce # students[s].qr_nonce
           /\ students' = [students EXCEPT ![s] =
                  [status |-> "APPROVED", qr_nonce |-> nonce,
                   qr_version |-> regen.version]]
    /\ regen' = [regen EXCEPT !.todo = Tail(@)]
    /\ req' = Disturbed
    /\ UNCHANGED <<qr_secret_version, payments, mess_cuts, mess_closures,
                   scan_events, clock, held, bot_ops, notifications, codec,
                   audit_logs, regen_other, otherVars>>

RegenDone ==
    /\ regen.pc = "loop"
    /\ Len(regen.todo) = 0
    /\ regen' = [regen EXCEPT !.pc = "idle", !.runs = @ + 1]
    /\ UNCHANGED <<qr_secret_version, students, payments, mess_cuts, mess_closures,
                   scan_events, clock, held, req, bot_ops, notifications, codec,
                   audit_logs, regen_other, otherVars>>

\* the procedure started from a second shell while the first one runs:
\* settings = Settings.get_settings()
RegenOtherLoad ==
    /\ regen_other.pc = "idle"
    /\ regen_other.runs < MaxRotations
    /\ regen_other' = [regen_other EXCEPT !.pc = "loaded",
                                          !.version = qr_secret_version]
    /\ UNCHANGED <<qr_secret_version, students, payments, mess_cuts, mess_closures,
                   scan_events, clock, held, req, bot_ops, notifications, codec,
                   audit_logs, regen, otherVars>>

\* settings.qr_secret_version += 1; settings.save()
RegenOtherSave ==
    /\ regen_other.pc = "loaded"
    /\ qr_secret_version' = regen_other.version + 1
    /\ regen_other' = [regen_other EXCEPT !.pc = "saved",
                                          !.version = regen_other.version + 1]
    /\ req' = Disturbed
    /\ UNCHANGED <<students, payments, mess_cuts, mess_closures,
                   scan_events, clock, held, bot_ops, notifications, codec,
                   audit_logs, regen, otherVars>>

\* students = Student.objects.filter(status='APPROVED'), evaluated by the loop
RegenOtherQuery ==
    /\ regen_other.pc = "saved"
    /\ regen_other' = [regen_other EXCEPT !.pc = "loop", !.todo = ApprovedFrom(1)]
    /\ UNCHANGED <<qr_secret_version, students, payments, mess_cuts, mess_closures,
                   scan_events, clock, held, req, bot_ops, notifications, codec,
                   audit_logs, regen, otherVars>>

\* the loop body
RegenOtherStudent(nonce) ==
    /\ regen_other.pc = "loop"
    /\ Len(regen_other.todo) > 0
    /\ LET s == Head(regen_other.todo)
       IN  /\ nonce # students[s].qr_nonce
           /\ students' = [students EXCEPT ![s] =
                  [status |-> "APPROVED", qr_nonce |-> nonce,
                   qr_version |-> regen_other.version]]
    /\ regen_other' = [regen_other EXCEPT !.todo = Tail(@)]
    /\ req' = Disturbed
    /\ UNCHANGED <<qr_secret_version, payments, mess_cuts, mess_closures,
                   scan_events, clock, held, bot_ops, notifications, codec,
                   audit_logs, regen, otherVars>>

RegenOtherDone ==
    /\ regen_other.pc = "loop"
    /\ Len(regen_other.todo) = 0
    /\ regen_other' = [regen_other EXCEPT !.pc = "idle", !.runs = @ + 1]
    /\ UNCHANGED <<qr_secret_version, students, payments, mess_cuts, mess_closures,
                   scan_events, clock, held, req, bot_ops, notifications, codec,
                   audit_logs, regen, otherVars>>


(***************************************************************************)
(* backup_utils: backup_to_sheets and process_dlq_backups.                 *)
(***************************************************************************)
Sheets == {"payments", "scan_events"}

\* @shared_task(bind=True, max_retries=3) of backup_to_sheets
backup_max_retries == 3

\* the invocations of backup_to_sheets that there have been: the ones waiting,
\* the ones that ended in the DLQ and the ones that succeeded
InvocationsSoFar ==
    Len(backups) + Len(dlq_logs)
        + Cardinality({i \in 1..Len(audit_logs) :
                           audit_logs[i].event_type = "BACKUP_SUCCESS"})

\* backup_payment, backup_scan_event: backup_to_sheets.delay(sheet_name, data);
\* redispatch_of remembers the DLQ row a task was dispatched again for
BackupDelay(sheet_name) ==
    /\ InvocationsSoFar < MaxBackups
    /\ backups' = Append(backups, [sheet_name |-> sheet_name, data |-> "row",
                                   retries |-> 0, redispatch_of |-> 0])
    /\ UNCHANGED <<coreVars, dlq_logs, dlq_run, clientVars, admin_calls, cut_requests>>

\* a DLQ row without the data
dlq_entry_without_data(sheet_name, data) ==
    [operation_type |-> "SHEETS_BACKUP", sheet_name |-> sheet_name, data |-> None,
     retry_count |-> 0, processed_at |-> None, redispatched |-> 0]

\* DLQLog.objects.create(operation_type='SHEETS_BACKUP',
\*                       payload={'sheet_name': sheet_name, 'data': data}, ...);
\* redispatched counts the times the row was dispatched again
dlq_entry(sheet_name, data) ==
    [operation_type |-> "SHEETS_BACKUP", sheet_name |-> sheet_name, data |-> data,
     retry_count |-> 0, processed_at |-> None, redispatched |-> 0]

\* one attempt of backup_to_sheets for the oldest task: the row is appended to
\* the sheet and BACKUP_SUCCESS written to the audit log, or the attempt fails
\* and the task is enqueued again with one retry more, or, the retries used
\* up, the task is stored in the DLQ
BackupToSheets(ok) ==
    /\ Len(backups) > 0
    /\ LET task == Head(backups)
       IN  IF ok
           THEN /\ backups' = Tail(backups)
                /\ audit_logs' = Append(audit_logs,
                       [actor_type |-> "SYSTEM", event_type |-> "BACKUP_SUCCESS",
                        sheet_name |-> task.sheet_name])
                /\ UNCHANGED dlq_logs
           ELSE IF task.retries < backup_max_retries
           THEN /\ backups' = Append(Tail(backups), [task EXCEPT !.retries = @ + 1])
                /\ UNCHANGED <<audit_logs, dlq_logs>>
           ELSE /\ backups' = Tail(backups)
                /\ dlq_logs' = Append(dlq_logs, dlq_entry(task.sheet_name, task.data))
                /\ UNCHANGED audit_logs
    /\ UNCHANGED <<qr_secret_version, students, payments, mess_cuts, mess_closures,
                   scan_events, clock, held, req, bot_ops, regen, notifications,
                   codec, regen_other, dlq_run, clientVars, admin_calls, cut_requests>>

\* DLQLog.objects.filter(operation_type='SHEETS_BACKUP',
\*                       processed_at__isnull=True, retry_count__lt=5)
failed_backups(row) ==
    /\ row.operation_type = "SHEETS_BACKUP"
    /\ row.processed_at = None
    /\ row.retry_count < 5

\* the rows of the filter from position k on, as the query loads them
RECURSIVE FailedFrom(_)
FailedFrom(k) ==
    IF k > Len(dlq_logs) THEN <<>>
    ELSE IF failed_backups(dlq_logs[k])
    THEN <<[id |-> k, retry_count |-> dlq_logs[k].retry_count]>> \o FailedFrom(k + 1)
    ELSE FailedFrom(k + 1)

\* process_dlq_backups starts: the query is evaluated by the loop. The task is
\* started by cron and by process_dlq_backups.delay(), and nothing keeps two
\* runs from overlapping
DlqLoad(r) ==
    /\ dlq_run[r].pc = "idle"
    /\ dlq_run' = [dlq_run EXCEPT ![r] = [pc |-> "loop", todo |-> FailedFrom(1)]]
    /\ UNCHANGED <<coreVars, backups, dlq_logs, clientVars, admin_calls, cut_requests>>

\* the loop body: backup_to_sheets.delay(sheet_name, data), retry_count += 1 on
\* the row as loaded, save(); when .delay raises the row is left as it is
DlqItem(r, ok) ==
    /\ dlq_run[r].pc = "loop"
    /\ Len(dlq_run[r].todo) > 0
    /\ LET dlq_item == Head(dlq_run[r].todo)
           row == dlq_logs[dlq_item.id]
       IN  IF ok
           THEN /\ backups' = Append(backups,
                       [sheet_name |-> row.sheet_name, data |-> row.data,
                        retries |-> 0, redispatch_of |-> dlq_item.id])
                /\ dlq_logs' = [dlq_logs EXCEPT ![dlq_item.id] =
                       [@ EXCEPT !.retry_count = dlq_item.retry_count + 1,
                                 !.redispatched = @ + 1]]
           ELSE UNCHANGED <<backups, dlq_logs>>
    /\ dlq_run' = [dlq_run EXCEPT ![r].todo = Tail(@)]
    /\ UNCHANGED <<coreVars, clientVars, admin_calls, cut_requests>>

DlqDone(r) ==
    /\ dlq_run[r].pc = "loop"
    /\ Len(dlq_run[r].todo) = 0
    /\ dlq_run' = [dlq_run EXCEPT ![r].pc = "done"]
    /\ UNCHANGED <<coreVars, backups, dlq_logs, clientVars, admin_calls, cut_requests>>

(***************************************************************************)
(* mess_cut_handler, step 'waiting_dates': the whole handler, with the     *)
(* time of day of the request and the text as the student typed it.        *)
(***************************************************************************)
\* a field of the text that datetime.strptime(..., '%Y-%m-%d') refuses
NotADate == 0 - 1

\* the fields of update.message.text.split('|'): days around the ones of the
\* clock, or something that is not a date
DateFields == (0..(MaxDay + 2)) \cup {NotADate}
CutTexts == {<<f>> : f \in DateFields} \cup (DateFields \X DateFields)

\* a minimum that forgets the cutoff
min_date_ignoring_cutoff(today, past_cutoff) == today + 1

\* if now > cutoff_time: (now + timedelta(days=2)).date()
\* else: (now + timedelta(days=1)).date()
min_date(today, past_cutoff) == IF past_cutoff THEN today + 2 ELSE today + 1

\* the reply of the handler to a text: the ValueError of the split, of strptime,
\* of the two validations, or the confirmation
mess_cut_reply(dates, today, past_cutoff) ==
    IF Len(dates) # 2 THEN "Invalid format"
    ELSE IF dates[1] = NotADate \/ dates[2] = NotADate THEN "strptime ValueError"
    ELSE IF dates[1] < min_date(today, past_cutoff) THEN "From date must be >= min_date"
    ELSE IF dates[2] < dates[1] THEN "To date must be >= from date"
    ELSE "Mess cut confirmed"

\* the student s sends the text dates; now > cutoff_time is past_cutoff
MessCutRequest(s, dates, past_cutoff) ==
    /\ Len(cut_requests) < MaxCutRequests
    /\ LET reply == mess_cut_reply(dates, clock, past_cutoff)
       IN  /\ cut_requests' = Append(cut_requests,
                  [student |-> s, dates |-> dates, today |-> clock,
                   past_cutoff |-> past_cutoff, reply |-> reply])
           /\ mess_cuts' =
                  IF reply = "Mess cut confirmed"
                  THEN mess_cuts \cup
                           {[student |-> s, from_date |-> dates[1], to_date |-> dates[2]]}
                  ELSE mess_cuts
    /\ UNCHANGED <<qr_secret_version, students, payments, mess_closures,
                   scan_events, clock, held, req, bot_ops, regen, notifications,
                   codec, audit_logs, regen_other, backupVars, clientVars,
                   admin_calls>>

(***************************************************************************)
(* The scanner page: handleScanResult, storePendingScan, retryPendingScans *)
(* and the network listeners.  A scan is named by its position in scanned, *)
(* as the stored object is by its timestamp.                               *)
(***************************************************************************)
\* window 'offline'
GoOffline ==
    /\ online
    /\ online' = FALSE
    /\ UNCHANGED <<coreVars, backupVars, pendingScans, passes, scanned,
                   admin_calls, cut_requests>>

\* window 'online': retryPendingScans() reads the store and returns when it is
\* empty, or sends the first stored scan
GoOnline ==
    /\ ~online
    /\ online' = TRUE
    /\ IF pendingScans = <<>>
       THEN UNCHANGED passes
       ELSE \E p \in (1..MaxPasses) :
                /\ passes[p].pc = "idle"
                /\ \A o \in (1..MaxPasses) : o < p => passes[o].pc # "idle"
                /\ passes' = [passes EXCEPT ![p] =
                       [pc |-> "fetch", pending |-> pendingScans, next |-> 1]]
    /\ UNCHANGED <<coreVars, backupVars, pendingScans, scanned,
                   admin_calls, cut_requests>>

\* handleScanResult: apiCall('/scanner/scan', scanData) is answered, which takes
\* the network, or throws; the catch stores the scan when navigator.onLine is
\* false and shows the error otherwise
HandleScanResult(ok) ==
    /\ Len(scanned) < MaxClientScans
    /\ ok => online
    /\ IF ok
       THEN /\ scanned' = Append(scanned, [stored |-> FALSE, answered |-> TRUE])
            /\ UNCHANGED pendingScans
       ELSE IF ~online
       THEN /\ pendingScans' = Append(pendingScans, Len(scanned) + 1)
            /\ scanned' = Append(scanned, [stored |-> TRUE, answered |-> FALSE])
       ELSE /\ scanned' = Append(scanned, [stored |-> FALSE, answered |-> FALSE])
            /\ UNCHANGED pendingScans
    /\ UNCHANGED <<coreVars, backupVars, online, passes, admin_calls, cut_requests>>

\* retryPendingScans, await fetch(...) of apiCall: the response arrives, which
\* takes the network, or the call throws and the pass returns
RetryFetch(p, ok) ==
    /\ passes[p].pc = "fetch"
    /\ ok => online
    /\ IF ok
       THEN /\ passes' = [passes EXCEPT ![p].pc = "json"]
            /\ scanned' = [scanned EXCEPT
                   ![passes[p].pending[passes[p].next]].answered = TRUE]
       ELSE /\ passes' = [passes EXCEPT ![p].pc = "done"]
            /\ UNCHANGED scanned
    /\ UNCHANGED <<coreVars, backupVars, online, pendingScans,
                   admin_calls, cut_requests>>

\* retryPendingScans, await response.json() of apiCall: the loop sends the next
\* scan of the list it read, or, after the last,
\* localStorage.removeItem('pendingScans')
RetryJson(p) ==
    /\ passes[p].pc = "json"
    /\ IF passes[p].next < Len(passes[p].pending)
       THEN /\ passes' = [passes EXCEPT ![p].pc = "fetch", ![p].next = @ + 1]
            /\ UNCHANGED pendingScans
       ELSE /\ passes' = [passes EXCEPT ![p].pc = "done"]
            /\ pendingScans' = <<>>
    /\ UNCHANGED <<coreVars, backupVars, online, scanned, admin_calls, cut_requests>>

(***************************************************************************)
(* api/views.py: admin_approve_registration and admin_deny_registration.   *)
(***************************************************************************)
\* settings.ADMIN_TG_IDS
ADMIN_TG_IDS == {10}

\* request.user of a call: nobody, the StaffUser object of
\* StaffTokenAuthentication, which has no attribute id, or the user of a
\* session, with its id
NoId == 0 - 1
Callers ==
    {[kind |-> "anonymous", id |-> NoId], [kind |-> "staff", id |-> NoId],
     [kind |-> "session", id |-> 10], [kind |-> "session", id |-> 11]}

\* the names that the module api/views.py imports: status, api_view,
\* permission_classes, IsAuthenticated, Response, timezone, get_object_or_404,
\* datetime, timedelta, the models, verify_qr_payload, the serializers,
\* IsStaffUser
views_globals ==
    {"status", "api_view", "permission_classes", "IsAuthenticated", "Response",
     "timezone", "get_object_or_404", "datetime", "timedelta", "Student",
     "Payment", "MessCut", "MessClosure", "ScanEvent", "verify_qr_payload",
     "StudentSnapshotSerializer", "ScanEventSerializer", "IsStaffUser"}

\* @permission_classes([IsAuthenticated]), then
\* if request.user.id not in settings.ADMIN_TG_IDS: return 403
\* request.user.id is evaluated first, then the name settings is looked up
admin_gate(caller) ==
    IF caller.kind = "anonymous" THEN "HTTP_403_NOT_AUTHENTICATED"
    ELSE IF caller.id = NoId THEN "HTTP_500"
    ELSE IF "settings" \notin views_globals THEN "HTTP_500"
    ELSE IF caller.id \notin ADMIN_TG_IDS THEN "HTTP_403_ACCESS_DENIED"
    ELSE "HTTP_200"

\* admin_approve_registration and admin_deny_registration, POST
\* admin/approve/<student_id> and admin/deny/<student_id>: one call, new_status
\* is 'APPROVED' or 'DENIED'; past the gate
\* the student is saved with the status and the notification dispatched
AdminRegistration(new_status, caller, s) ==
    /\ Len(admin_calls) < MaxAdminCalls
    /\ LET response == admin_gate(caller)
       IN  /\ IF response = "HTTP_200"
              THEN /\ students' = [students EXCEPT ![s].status = new_status]
                   /\ notifications' = Append(notifications,
                          [student |-> s, meal |-> new_status, retries |-> 0])
              ELSE UNCHANGED <<students, notifications>>
           /\ admin_calls' = Append(admin_calls,
                  [new_status |-> new_status, caller |-> caller, student |-> s,
                   response |-> response, before |-> students[s].status,
                   after |-> students'[s].status,
                   notified |-> Len(notifications') > Len(notifications)])
    /\ UNCHANGED <<qr_secret_version, payments, mess_cuts, mess_closures,
                   scan_events, clock, held, req, bot_ops, regen, codec,
                   audit_logs, regen_other, backupVars, clientVars, cut_requests>>

(***************************************************************************)
(* The system.                                                             *)
(***************************************************************************)
Presented == {held[s] : s \in StudentIds} \cup OtherPayloads

BotOps ==
    \/ \E s \in StudentIds : AdminApprove(s)
    \/ \E s \in StudentIds : AdminDeny(s)
    \/ \E s \in StudentIds : QrHandler(s)
    \/ \E s \in StudentIds, f \in Days, t \in Days : MessCutHandler(s, f, t)
    \/ \E f \in Days, t \in Days : SetMessClosure(f, t)

ScanSteps ==
    \/ \E w \in Requests : ScanStudent(w)
    \/ \E w \in Requests : ScanPayment(w)
    \/ \E w \in Requests : ScanCut(w)
    \/ \E w \in Requests : ScanClosure(w)
    \/ \E w \in Requests : ScanWriteBlocked(w)
    \/ \E w \in Requests : ScanDuplicate(w)
    \/ \E w \in Requests : ScanWriteAllowed(w)
    \/ \E w \in Requests : ScanNotify(w)
    \/ \E w \in Requests : ScanFault(w)

Regeneration ==
    \/ RegenLoad
    \/ RegenSave
    \/ RegenQuery
    \/ \E n \in Nonces : RegenStudent(n)
    \/ RegenDone

\* the admission pipeline: requests arrive and run concurrently
Next ==
    \/ BotOps
    \/ Tick
    \/ \E w \in Requests, q \in Presented, m \in MealInputs, f \in BOOLEAN :
           ScanVerify(w, q, m, f, FALSE)
    \/ ScanSteps

Spec == Init /\ [][Next]_vars

\* the regeneration of the QR codes while the bot is used and payloads are
\* scanned, one request at a time
NextRotation ==
    \/ BotOps
    \/ Regeneration
    \/ \E w \in Requests, q \in Presented, m \in MealInputs, f \in BOOLEAN :
           ScanVerify(w, q, m, f, TRUE)
    \/ ScanSteps

SpecRotation == Init /\ [][NextRotation]_vars


\* the procedure run from two shells at once, while registrations are approved
OtherRegeneration ==
    \/ RegenOtherLoad
    \/ RegenOtherSave
    \/ RegenOtherQuery
    \/ \E n \in Nonces : RegenOtherStudent(n)
    \/ RegenOtherDone

NextTwoShells ==
    \/ \E s \in StudentIds : AdminApprove(s)
    \/ Regeneration
    \/ OtherRegeneration

SpecTwoShells == Init /\ [][NextTwoShells]_vars


\* payments uploaded through the bot, for cycles that start on the days around
\* the ones of the clock
CycleStarts == 0..(MaxDay + 1)
CycleEnds == 1..(MaxDay + 1)

NextPayments ==
    \/ \E s \in StudentIds, cycle_start \in CycleStarts, cycle_end \in CycleEnds :
           PaymentHandler(s, cycle_start, cycle_end)
    \/ Tick

SpecPayments == Init /\ [][NextPayments]_vars


\* the requests of scanners with drawn Authorization headers, one at a time,
\* for approved students who hold their payloads
InitAuth ==
    /\ qr_secret_version = 1
    /\ students = [s \in StudentIds |->
                      [status |-> "APPROVED", qr_nonce |-> <<"c">>, qr_version |-> 1]]
    /\ payments = PaymentTable
    /\ mess_cuts = {}
    /\ mess_closures = {}
    /\ scan_events = <<>>
    /\ clock = 1
    /\ held = [s \in StudentIds |->
                  generate_qr_payload(1, s, 1, <<"c">>, QR_SECRET)]
    /\ req = [w \in Requests |-> [IdleReq EXCEPT !.pc = "arrived"]]
    /\ bot_ops = 0
    /\ regen = IdleRegen
    /\ notifications = <<>>
    /\ audit_logs = <<>>
    /\ regen_other = IdleRegen
    /\ OthersIdle
    /\ codec = IdleCodec

NextAuth ==
    \/ Tick
    \/ \E w \in Requests, h \in Headers : Authenticate(w, h)
    \/ \E w \in Requests, q \in Presented, m \in MealInputs, f \in BOOLEAN :
           ScanVerify(w, q, m, f, FALSE)
    \/ ScanSteps

SpecAuth == InitAuth /\ [][NextAuth]_vars


\* the students send date ranges to the bot as the days pass
NextCuts ==
    \/ \E s \in StudentIds, dates \in CutTexts, past_cutoff \in BOOLEAN :
           MessCutRequest(s, dates, past_cutoff)
    \/ Tick

SpecCuts == Init /\ [][NextCuts]_vars


\* the scanner page while the network comes and goes
NextClient ==
    \/ GoOffline
    \/ GoOnline
    \/ \E ok \in BOOLEAN : HandleScanResult(ok)
    \/ \E p \in (1..MaxPasses), ok \in BOOLEAN : RetryFetch(p, ok)
    \/ \E p \in (1..MaxPasses) : RetryJson(p)

SpecClient == Init /\ [][NextClient]_vars


\* registrations approved and denied through the bot and through the API
NextAdmin ==
    \/ \E s \in StudentIds : AdminApprove(s)
    \/ \E s \in StudentIds : AdminDeny(s)
    \/ \E new_status \in {"APPROVED", "DENIED"}, caller \in Callers, s \in StudentIds :
           AdminRegistration(new_status, caller, s)

SpecAdmin == Init /\ [][NextAdmin]_vars


\* the backups and the DLQ: the DLQ holds nothing, or rows of earlier days: a
\* failed backup dispatched again four times already, next to a row of another
\* operation and a row processed by hand
DlqTables ==
    {<<>>,
     <<[dlq_entry("payments", "row") EXCEPT !.retry_count = 4, !.redispatched = 4],
       [dlq_entry("payments", "row") EXCEPT !.operation_type = "SHEETS_EXPORT"],
       [dlq_entry("scan_events", "row") EXCEPT !.processed_at = "2024-01-01"]>>}

InitBackup ==
    /\ qr_secret_version = 1
    /\ students = [s \in StudentIds |->
                      [status |-> "PENDING", qr_nonce |-> <<"c">>, qr_version |-> 1]]
    /\ payments = PaymentTable
    /\ mess_cuts = {}
    /\ mess_closures = {}
    /\ scan_events = <<>>
    /\ clock = 1
    /\ held = [s \in StudentIds |-> EmptyPayload]
    /\ req = [w \in Requests |-> IdleReq]
    /\ bot_ops = 0
    /\ regen = IdleRegen
    /\ notifications = <<>>
    /\ audit_logs = <<>>
    /\ regen_other = IdleRegen
    /\ codec = IdleCodec
    /\ backups = <<>>
    /\ dlq_logs \in DlqTables
    /\ dlq_run = [r \in (1..MaxDlqRuns) |-> IdleRun]
    /\ online = TRUE
    /\ pendingScans = <<>>
    /\ passes = [p \in (1..MaxPasses) |-> IdlePass]
    /\ scanned = <<>>
    /\ admin_calls = <<>>
    /\ cut_requests = <<>>

NextBackup ==
    \/ \E sheet_name \in Sheets : BackupDelay(sheet_name)
    \/ \E ok \in BOOLEAN : BackupToSheets(ok)
    \/ \E r \in (1..MaxDlqRuns) : DlqLoad(r)
    \/ \E r \in (1..MaxDlqRuns), ok \in BOOLEAN : DlqItem(r, ok)
    \/ \E r \in (1..MaxDlqRuns) : DlqDone(r)

SpecBackup == InitBackup /\ [][NextBackup]_vars


\* the requests, one at a time, with the worker that sends the notifications
NextAudit ==
    \/ BotOps
    \/ Tick
    \/ \E w \in Requests, q \in Presented, m \in MealInputs, f \in BOOLEAN :
           ScanVerify(w, q, m, f, TRUE)
    \/ ScanSteps
    \/ \E sent \in BOOLEAN : SendTelegramMessage(sent)

SpecAudit == Init /\ [][NextAudit]_vars

\* both students approved and holding their QR payloads, with cuts and closures
\* on record that were applied on earlier days
CutChoices ==
    {{},
     {[student |-> 1, from_date |-> 1, to_date |-> 1]},
     {[student |-> 2, from_date |-> 1, to_date |-> MaxDay]},
     {[student |-> 1, from_date |-> 2, to_date |-> 2],
      [student |-> 2, from_date |-> 1, to_date |-> 1]}}

ClosureChoices ==
    {{},
     {[from_date |-> 1, to_date |-> 1]},
     {[from_date |-> 2, to_date |-> MaxDay]}}

InitExclusion ==
    /\ qr_secret_version = 1
    /\ students = [s \in StudentIds |->
                      [status |-> "APPROVED", qr_nonce |-> <<"c">>, qr_version |-> 1]]
    /\ payments = PaymentTable
    /\ mess_cuts \in CutChoices
    /\ mess_closures \in ClosureChoices
    /\ scan_events = <<>>
    /\ clock = 1
    /\ held = [s \in StudentIds |->
                  generate_qr_payload(1, s, 1, <<"c">>, QR_SECRET)]
    /\ req = [w \in Requests |-> IdleReq]
    /\ bot_ops = 0
    /\ regen = IdleRegen
    /\ notifications = <<>>
    /\ audit_logs = <<>>
    /\ regen_other = IdleRegen
    /\ OthersIdle
    /\ codec = IdleCodec

NextExclusion ==
    \/ Tick
    \/ \E w \in Requests, q \in Presented, m \in MealInputs, f \in BOOLEAN :
           ScanVerify(w, q, m, f, TRUE)
    \/ ScanSteps

SpecExclusion == InitExclusion /\ [][NextExclusion]_vars

(***************************************************************************)
(* The codec applied to drawn inputs: a payload is minted, a character of  *)
(* its signature may be replaced, and the payload is verified.             *)
(***************************************************************************)
CodecIds == {1, 2, 10}
CodecTimes == {1, 10}
Secrets == {QR_SECRET, OtherSecret}
TamperChars == {"0", "6", "f", "x", " ", "|", NonAscii}

InitCodec ==
    /\ qr_secret_version = 1
    /\ students = [s \in StudentIds |->
                      [status |-> "PENDING", qr_nonce |-> <<"c">>, qr_version |-> 1]]
    /\ payments = PaymentTable
    /\ mess_cuts = {}
    /\ mess_closures = {}
    /\ scan_events = <<>>
    /\ clock = 1
    /\ held = [s \in StudentIds |-> EmptyPayload]
    /\ req = [w \in Requests |-> IdleReq]
    /\ bot_ops = 0
    /\ regen = IdleRegen
    /\ notifications = <<>>
    /\ audit_logs = <<>>
    /\ regen_other = IdleRegen
    /\ OthersIdle
    /\ codec \in [phase : {"input"}, student_id : CodecIds, nonce : Nonces,
                  version : 1..MaxEpoch, issued_at : CodecTimes, secret : Secrets,
                  payload : {EmptyPayload}, tampered : {FALSE}, put : {""},
                  current_version : {0}, verify_secret : {EmptyPayload},
                  result : {Rejected(None)}]

\* generate_qr_payload under the drawn version, time and secret
CodecMint ==
    /\ codec.phase = "input"
    /\ codec' = [codec EXCEPT
           !.phase = "minted",
           !.payload = generate_qr_payload(codec.version, codec.student_id,
                                           codec.issued_at, codec.nonce, codec.secret)]
    /\ UNCHANGED dbVars
    /\ UNCHANGED req

\* the first position of the signature segment of a five-part payload
SignatureStart(payload) ==
    LET parts == Split(payload) IN Len(payload) - Len(parts[5]) + 1

\* one character of the signature segment is replaced by a different one
CodecTamper(i, c) ==
    /\ codec.phase = "minted"
    /\ i \in SignatureStart(codec.payload)..Len(codec.payload)
    /\ codec.payload[i] # c
    /\ codec' = [codec EXCEPT !.phase = "tampered", !.tampered = TRUE, !.put = c,
                              !.payload = [codec.payload EXCEPT ![i] = c]]
    /\ UNCHANGED dbVars
    /\ UNCHANGED req

\* verify_qr_payload under a current version and a secret
CodecVerify(current_version, secret) ==
    /\ codec.phase \in {"minted", "tampered"}
    /\ codec' = [codec EXCEPT
           !.phase = "verified",
           !.current_version = current_version,
           !.verify_secret = secret,
           !.result = verify_qr_payload(codec.payload, current_version, secret, FALSE,
                                        time_time)]
    /\ UNCHANGED dbVars
    /\ UNCHANGED req

NextCodec ==
    \/ CodecMint
    \/ \E i \in 1..Len(codec.payload), c \in TamperChars : CodecTamper(i, c)
    \/ \E v \in 1..MaxEpoch, k \in Secrets : CodecVerify(v, k)

SpecCodec == InitCodec /\ [][NextCodec]_vars

(***************************************************************************)
(* The codec applied at drawn times: a payload is minted and verified      *)
(* twice, at an earlier and at a later time.                               *)
(***************************************************************************)
VerifyTimes == {10, 3610, 3611}

InitAge ==
    /\ qr_secret_version = 1
    /\ students = [s \in StudentIds |->
                      [status |-> "PENDING", qr_nonce |-> <<"c">>, qr_version |-> 1]]
    /\ payments = PaymentTable
    /\ mess_cuts = {}
    /\ mess_closures = {}
    /\ scan_events = <<>>
    /\ clock = 1
    /\ held = [s \in StudentIds |-> EmptyPayload]
    /\ req = [w \in Requests |-> IdleReq]
    /\ bot_ops = 0
    /\ regen = IdleRegen
    /\ notifications = <<>>
    /\ audit_logs = <<>>
    /\ regen_other = IdleRegen
    /\ OthersIdle
    /\ codec \in [phase : {"input"}, student_id : CodecIds, nonce : Nonces,
                  version : 1..MaxEpoch, issued_at : CodecTimes, secret : Secrets,
                  payload : {EmptyPayload}, current_version : {0},
                  current_time : {0}, result : {Rejected(None)},
                  later_time : {0}, result_later : {Rejected(None)}]

\* verify_qr_payload under a current version, with time.time() = current_time
AgeVerify(current_version, current_time) ==
    /\ codec.phase = "minted"
    /\ codec' = [codec EXCEPT
           !.phase = "verified",
           !.current_version = current_version,
           !.current_time = current_time,
           !.result = verify_qr_payload(codec.payload, current_version, QR_SECRET,
                                        FALSE, current_time)]
    /\ UNCHANGED dbVars
    /\ UNCHANGED req

\* the same payload verified again, no earlier, under the same version
AgeVerifyAgain(current_time) ==
    /\ codec.phase = "verified"
    /\ current_time >= codec.current_time
    /\ codec' = [codec EXCEPT
           !.phase = "reverified",
           !.later_time = current_time,
           !.result_later = verify_qr_payload(codec.payload, codec.current_version,
                                              QR_SECRET, FALSE, current_time)]
    /\ UNCHANGED dbVars
    /\ UNCHANGED req

NextAge ==
    \/ CodecMint
    \/ \E v \in 1..MaxEpoch, t \in VerifyTimes : AgeVerify(v, t)
    \/ \E t \in VerifyTimes : AgeVerifyAgain(t)

SpecAge == InitAge /\ [][NextAge]_vars


(***************************************************************************)
(* Payloads that were not minted: the fields are drawn, well formed or not, *)
(* the payload is verified and presented to scanner_scan.                  *)
(***************************************************************************)
ParseVersions == {<<"1">>, <<"2">>, <<"x">>, <<>>, <<" ", "1">>}
ParseIds == {<<"1">>, <<"x">>, <<>>, <<"1", "x">>}
ParseArities == {4, 5, 6}

\* the payload of these fields, signed with the key, cut or extended to the arity
ForgePayload(version, student_id, key, arity) ==
    LET payload_data == Join(<<version, student_id, <<"1">>, <<"c">>>>)
        signature == hmac_hexdigest(key, payload_data)
    IN  IF arity = 4 THEN payload_data
        ELSE IF arity = 5 THEN Join(<<payload_data, signature>>)
        ELSE Join(<<payload_data, signature, <<"x">>>>)

InitParse ==
    /\ qr_secret_version = 1
    /\ students = [s \in StudentIds |->
                      [status |-> "PENDING", qr_nonce |-> <<"c">>, qr_version |-> 1]]
    /\ payments = PaymentTable
    /\ mess_cuts = {}
    /\ mess_closures = {}
    /\ scan_events = <<>>
    /\ clock = 1
    /\ held = [s \in StudentIds |-> EmptyPayload]
    /\ req = [w \in Requests |-> IdleReq]
    /\ bot_ops = 0
    /\ regen = IdleRegen
    /\ notifications = <<>>
    /\ audit_logs = <<>>
    /\ regen_other = IdleRegen
    /\ OthersIdle
    /\ \E v \in ParseVersions, i \in ParseIds, k \in Secrets, n \in ParseArities :
           codec = [phase |-> "forged", version_field |-> v, id_field |-> i,
                    secret |-> k, arity |-> n,
                    payload |-> ForgePayload(v, i, k, n),
                    current_version |-> 0, fault |-> FALSE,
                    result |-> Rejected(None)]

\* verify_qr_payload applied to the payload
ParseVerify(current_version, settingsFault) ==
    /\ codec.phase = "forged"
    /\ codec' = [codec EXCEPT
                    !.phase = "verified",
                    !.current_version = current_version,
                    !.fault = settingsFault,
                    !.result = verify_qr_payload(codec.payload, current_version,
                                                 QR_SECRET, settingsFault,
                                                 time_time)]
    /\ UNCHANGED dbVars
    /\ UNCHANGED req

NextParse ==
    \/ \E v \in 1..MaxEpoch, f \in BOOLEAN : ParseVerify(v, f)
    \/ \E w \in Requests, m \in MealInputs, f \in BOOLEAN :
           ScanVerify(w, codec.payload, m, f, FALSE)

SpecParse == InitParse /\ [][NextParse]_vars

(***************************************************************************)
(* Statements about the scan ledger and the requests.                      *)
(***************************************************************************)
Done(w) == req[w].pc = "done" /\ req[w].result # "forgotten"

\* the student of the request was found and is eligible on that day
EligibleOn(s, day) == ApprovedNow(s) /\ PaidOn(s, day) /\ ~ExcludedOn(s, day)

\* C1: the ledger holds at most one ALLOWED ScanEvent for each student, meal
\* and calendar day, after any interleaving of scanner_scan requests
C1_AtMostOneAllowedPerDay ==
    \A i, j \in 1..Len(scan_events) :
        (/\ i < j
         /\ scan_events[i].result = "ALLOWED"
         /\ scan_events[j].result = "ALLOWED"
         /\ scan_events[i].student = scan_events[j].student
         /\ scan_events[i].meal = scan_events[j].meal)
        => scan_events[i].scanned_at # scan_events[j].scanned_at

\* two requests for the same student, meal and day that both reached the
\* duplicate lookup, neither finding an ALLOWED scan in the ledger when it arrived
RacingPair(w, u) ==
    /\ w # u
    /\ Done(w) /\ Done(u)
    /\ req[w].student_id = req[u].student_id
    /\ req[w].meal = req[u].meal
    /\ req[w].today_start > 0
    /\ req[w].today_start = req[u].today_start
    /\ req[w].arrived = req[w].today_start
    /\ req[u].arrived = req[u].today_start
    /\ ~req[w].prior_allowed /\ ~req[u].prior_allowed
    /\ {req[w].result, req[u].result} \subseteq {"ALLOWED", "BLOCKED_DUPLICATE"}

\* C2: of two concurrent requests for the same student, meal and day, exactly
\* one is answered ALLOWED and the other BLOCKED_DUPLICATE
C2_ConcurrentScansAdmitOnce ==
    \A w, u \in Requests :
        RacingPair(w, u) =>
            {req[w].result, req[u].result} = {"ALLOWED", "BLOCKED_DUPLICATE"}

\* a request for an eligible student that ran within one day and without a fault
EligibleRun(w) ==
    /\ Done(w)
    /\ req[w].student_id \in StudentIds
    /\ clock = req[w].arrived
    /\ EligibleOn(req[w].student_id, req[w].arrived)
    /\ req[w].result # "HTTP_500"

\* C3: for an eligible student the first request for a meal is answered ALLOWED
\* (a request that finds no ALLOWED scan on arrival is answered ALLOWED, unless
\* another one was recorded meanwhile), and every request arriving after an
\* ALLOWED scan of that meal and day was recorded is answered BLOCKED_DUPLICATE
C3_AllowedThenDuplicate ==
    \A w \in Requests :
        EligibleRun(w) =>
            IF req[w].prior_allowed
            THEN req[w].result = "BLOCKED_DUPLICATE"
            ELSE \/ req[w].result = "ALLOWED"
                 \/ /\ req[w].result = "BLOCKED_DUPLICATE"
                    /\ AllowedOn(req[w].student_id, req[w].meal, req[w].arrived)

\* a second request answered BLOCKED_DUPLICATE after the first was answered ALLOWED
C3_Witness ==
    \E w, u \in Requests :
        /\ w < u
        /\ EligibleRun(w) /\ EligibleRun(u)
        /\ req[w].result = "ALLOWED" /\ ~req[w].prior_allowed
        /\ req[u].result = "BLOCKED_DUPLICATE" /\ req[u].prior_allowed
        /\ req[u].student_id = req[w].student_id /\ req[u].meal = req[w].meal

\* C4: a request in which a check failed or raised is not answered ALLOWED and
\* writes no ALLOWED ScanEvent
C4_FailClosed ==
    \A w \in Requests :
        (req[w].result = "ALLOWED"
            \/ \E i \in 1..Len(req[w].written) : req[w].written[i] = "ALLOWED")
        => req[w].failed = {}

\* the write of the ALLOWED row raised after every check had passed; another
\* request was blocked by a failed payment check
C4_Witness ==
    \E w, u \in Requests :
        /\ Done(w) /\ req[w].failed = {"fault"} /\ req[w].today_start > 0
        /\ req[w].result = "HTTP_500" /\ req[w].written = <<>>
        /\ Done(u) /\ req[u].failed = {"payment"}
        /\ req[u].result = "BLOCKED_NO_PAYMENT"

\* C5: a payload whose nonce differs from the student's current qr_nonce is
\* never admitted
C5_StaleNonceNeverAdmitted ==
    \A w \in Requests :
        req[w].result = "ALLOWED" => req[w].nonce = req[w].student_nonce

Verified == codec.phase = "verified"

\* C7: a five-part payload whose version differs from the current version is
\* rejected with the version mismatch, whatever secret signed it
C7_VersionMismatchFirst ==
    (/\ Verified
     /\ Len(Split(codec.payload)) = 5
     /\ ParseInt(Split(codec.payload)[1]).ok
     /\ ParseInt(Split(codec.payload)[1]).val # codec.current_version)
    => codec.result = Rejected(MsgVersion)

\* a payload of another version signed with a secret other than the verifier's
C7_Witness ==
    /\ Verified
    /\ codec.secret # codec.verify_secret
    /\ codec.version # codec.current_version
    /\ Len(Split(codec.payload)) = 5
    /\ codec.result = Rejected(MsgVersion)

\* C8: verifying a minted payload under the version and the secret it was
\* minted with returns the student id it was minted for
C8_RoundTrip ==
    (/\ Verified
     /\ ~codec.tampered
     /\ codec.secret = codec.verify_secret
     /\ codec.version = codec.current_version)
    => codec.result = [is_none |-> FALSE, student_id |-> codec.student_id,
                       msg |-> MsgValid]

\* the round trip of a two-digit student id
C8_Witness ==
    /\ Verified
    /\ ~codec.tampered
    /\ codec.secret = codec.verify_secret
    /\ codec.version = codec.current_version
    /\ codec.student_id = 10
    /\ codec.result.student_id = 10

\* a minted payload with one character of its signature replaced, verified
\* under the version and the secret it was minted with
TamperedRun ==
    /\ Verified
    /\ codec.tampered
    /\ codec.secret = codec.verify_secret
    /\ codec.version = codec.current_version

SettledRun(w) ==
    /\ Done(w)
    /\ req[w].result \notin {"HTTP_400", "HTTP_500"}
    /\ clock = req[w].arrived
    /\ req[w].student_id \in StudentIds =>
           req[w].student_nonce = students[req[w].student_id].qr_nonce

\* the first condition that holds, in the order invalid credential, student not
\* found, nonce mismatch, status, no payment, cut or closure, duplicate, allowed
FirstMatching(w, withNonce) ==
    LET s == req[w].student_id
    IN  IF "verify" \in req[w].failed THEN "BLOCKED_QR_INVALID"
        ELSE IF s \notin StudentIds THEN "BLOCKED_STUDENT_NOT_FOUND"
        ELSE IF withNonce /\ req[w].nonce # req[w].student_nonce
             THEN "BLOCKED_QR_INVALID"
        ELSE IF ~ApprovedNow(s) THEN "BLOCKED_STATUS"
        ELSE IF ~PaidOn(s, req[w].arrived) THEN "BLOCKED_NO_PAYMENT"
        ELSE IF ExcludedOn(s, req[w].arrived) THEN "BLOCKED_CUT"
        ELSE IF req[w].prior_allowed THEN "BLOCKED_DUPLICATE"
        ELSE "ALLOWED"

\* C11: the result of a request is the first matching condition in the order
\* invalid credential, student not found, nonce mismatch, status, no payment,
\* cut or closure, duplicate, allowed
C11_FirstMatchingWins ==
    \A w \in Requests :
        SettledRun(w) => req[w].result = FirstMatching(w, TRUE)

(***************************************************************************)
(* Statements about what a request writes.                                 *)
(***************************************************************************)
\* the request w ends in this step with one of the results
EndsWith(w, results) ==
    /\ req[w].pc # "done"
    /\ req'[w].pc = "done"
    /\ req'[w].result \in results

\* C12: a request answered BLOCKED_DUPLICATE writes no ScanEvent: the step
\* that ends it leaves the ledger as it is and no earlier step of it wrote
C12_DuplicateWritesNothing ==
    [][\A w \in Requests :
           EndsWith(w, {"BLOCKED_DUPLICATE"}) =>
               /\ scan_events' = scan_events
               /\ req'[w].written = <<>>]_vars

\* a duplicate scan was answered and the ledger holds the one admission only
C12_Witness ==
    \E w \in Requests :
        /\ Done(w)
        /\ req[w].result = "BLOCKED_DUPLICATE"
        /\ req[w].written = <<>>
        /\ Len(scan_events) = 1
        /\ scan_events[1].result = "ALLOWED"

\* C13: a request answered BLOCKED_QR_INVALID or BLOCKED_STUDENT_NOT_FOUND
\* writes no ScanEvent and leaves the ledger as it is
C13_RejectedWritesNothing ==
    [][\A w \in Requests :
           EndsWith(w, {"BLOCKED_QR_INVALID", "BLOCKED_STUDENT_NOT_FOUND"}) =>
               /\ scan_events' = scan_events
               /\ req'[w].written = <<>>]_vars

\* an invalid payload and the payload of an unknown student were both answered
\* and the ledger is empty
C13_Witness ==
    \E w, u \in Requests :
        /\ Done(w) /\ req[w].result = "BLOCKED_QR_INVALID"
        /\ Done(u) /\ req[u].result = "BLOCKED_STUDENT_NOT_FOUND"
        /\ req[w].written = <<>> /\ req[u].written = <<>>
        /\ scan_events = <<>>

(***************************************************************************)
(* Statements about the key (student, meal, day) of an admission.          *)
(***************************************************************************)
\* C14: a request is answered BLOCKED_DUPLICATE only when the ledger holds an
\* ALLOWED scan of the same student, the same meal and the same day; ALLOWED
\* scans of another student, another meal or another day never block it: an
\* eligible student without an ALLOWED scan of the meal and day on arrival is
\* answered ALLOWED whatever the requests for other students or meals did
C14_OnlySameKeyBlocks ==
    \A w \in Requests :
        /\ (Done(w) /\ req[w].result = "BLOCKED_DUPLICATE")
           => AllowedOn(req[w].student_id, req[w].meal, req[w].today_start)
        /\ (/\ EligibleRun(w)
            /\ ~req[w].prior_allowed
            /\ \A u \in Requests \ {w} :
                   \/ req[u].pc = "idle"
                   \/ req[u].result = "forgotten"
                   \/ req[u].student_id # req[w].student_id
                   \/ req[u].meal # req[w].meal)
           => req[w].result = "ALLOWED"

\* a student admitted for one meal was admitted for another meal that day:
\* both admissions are in the ledger
C14_Witness ==
    \E w, u \in Requests :
        /\ Done(w) /\ Done(u)
        /\ req[w].result = "ALLOWED" /\ req[u].result = "ALLOWED"
        /\ req[w].student_id = req[u].student_id
        /\ req[w].meal = "LUNCH" /\ req[u].meal = "DINNER"
        /\ req[w].today_start = req[u].today_start
        /\ req[u].arrived = req[u].today_start
        /\ ~req[u].prior_allowed
        /\ AllowedOn(req[w].student_id, "LUNCH", req[u].today_start)
        /\ AllowedOn(req[w].student_id, "DINNER", req[u].today_start)

(***************************************************************************)
(* Statements about faults, the notification and the clock.                *)
(***************************************************************************)
\* C15: a request in which a database access raised ends with the result
\* BLOCKED_INTERNAL_ERROR, returned as a result
C15_FaultIsBlockedResult ==
    \A w \in Requests :
        (Done(w) /\ "fault" \in req[w].failed)
        => req[w].result = "BLOCKED_INTERNAL_ERROR"

\* C16: a request that has written its ALLOWED ScanEvent is answered ALLOWED,
\* whether or not the notification could be enqueued
C16_AdmissionSurvivesNotification ==
    \A w \in Requests :
        (/\ Done(w)
         /\ \E i \in 1..Len(req[w].written) : req[w].written[i] = "ALLOWED")
        => req[w].result = "ALLOWED"

\* C17: the day used by the payment and exclusion checks of a request is the
\* day used by its duplicate check
C17_OneDayPerRequest ==
    \A w \in Requests :
        (req[w].today > 0 /\ req[w].today_start > 0)
        => req[w].today = req[w].today_start

(***************************************************************************)
(* Statements about payloads that are not well formed.                     *)
(***************************************************************************)
\* the drawn fields that are not integers, and the value of those that are
NotIntegers == {<<"x">>, <<>>, <<"1", "x">>}
FieldValue(field) == IF field = <<"2">> THEN 2 ELSE 1

\* not five parts, or a version or student id field that is not an integer
Malformed ==
    \/ codec.arity # 5
    \/ codec.version_field \in NotIntegers
    \/ codec.id_field \in NotIntegers

ParsedRun == codec.phase = "verified" /\ Malformed

\* C18: every payload that does not split into five parts, or whose version or
\* student id is not an integer, is rejected by verify_qr_payload as malformed
\* (the format error or the verification error)
C18_MalformedAsMalformed ==
    ParsedRun => codec.result \in {Rejected(MsgFormat), Rejected(MsgError)}

\* what does hold of these payloads: verify_qr_payload returns a rejection and
\* scanner_scan answers BLOCKED_QR_INVALID without a write; the rejection is the
\* format error for a wrong arity and the verification error for a version
\* that is not an integer; for a student id that is not an integer it is the
\* version mismatch or the signature error when the version or the signature
\* does not match, the verification error otherwise
MalformedRejected ==
    /\ ParsedRun =>
           codec.result =
               IF codec.arity # 5 THEN Rejected(MsgFormat)
               ELSE IF codec.fault THEN Rejected(MsgError)
               ELSE IF codec.version_field \in NotIntegers THEN Rejected(MsgError)
               ELSE IF FieldValue(codec.version_field) # codec.current_version
                    THEN Rejected(MsgVersion)
               ELSE IF codec.secret # QR_SECRET THEN Rejected(MsgSignature)
               ELSE Rejected(MsgError)
    /\ \A w \in Requests :
           (/\ codec.phase \in {"forged", "verified"}
            /\ Malformed
            /\ req[w].pc # "idle")
           => /\ req[w].pc = "done"
              /\ req[w].result \in {"BLOCKED_QR_INVALID", "HTTP_400"}
              /\ req[w].result = "HTTP_400" <=> req[w].meal = "SNACK"
              /\ req[w].written = <<>>

(***************************************************************************)
(* Statements about the ledger itself.                                     *)
(***************************************************************************)
\* C19: the append of an ALLOWED ScanEvent whose student, meal and day already
\* have an ALLOWED ScanEvent is refused by the ledger, and the request is
\* answered BLOCKED_DUPLICATE
C19_LedgerRefusesSecondAllowed ==
    [][\A w \in Requests :
           (/\ req[w].pc = "write_allowed"
            /\ req'[w].pc # "write_allowed"
            /\ req'[w].result # "HTTP_500"
            /\ AllowedOn(req[w].student_id, req[w].meal, clock))
           => /\ scan_events' = scan_events
              /\ req'[w].result = "BLOCKED_DUPLICATE"]_vars

\* C20: every step leaves the ScanEvents of the ledger as they are and in
\* their order: the ledger only grows by rows appended at its end
C20_LedgerAppendOnly ==
    [][/\ Len(scan_events') >= Len(scan_events)
       /\ SubSeq(scan_events', 1, Len(scan_events)) = scan_events]_vars

\* an admission is still the first row of the ledger after a later scan of the
\* student, then denied, was recorded
C20_Witness ==
    /\ Len(scan_events) = 2
    /\ scan_events[1].result = "ALLOWED"
    /\ scan_events[2].result = "BLOCKED_STATUS"
    /\ scan_events[2].student = scan_events[1].student
    /\ scan_events[2].meal = scan_events[1].meal
    /\ \E w \in Requests : Done(w) /\ req[w].written = <<"BLOCKED_STATUS">>

(***************************************************************************)
(* Statements about the audit log.                                         *)
(***************************************************************************)
\* C21: every request that has ended with a result, a rejected payload
\* included, has appended one entry to the audit log
C21_EveryResultAudited ==
    Cardinality({w \in Requests :
                    Done(w) /\ req[w].result \notin {"HTTP_400", "HTTP_500"}})
        <= Len(audit_logs)

(***************************************************************************)
(* Statements about the response.                                          *)
(***************************************************************************)
\* C22: a response with a result for which the student was resolved carries
\* the snapshot of that student; the response to an invalid payload or to the
\* payload of an unknown student carries none
C22_SnapshotWhenResolved ==
    \A w \in Requests :
        /\ (/\ Done(w)
            /\ req[w].result \in {"BLOCKED_STATUS", "BLOCKED_NO_PAYMENT", "BLOCKED_CUT",
                                  "BLOCKED_DUPLICATE", "ALLOWED"})
           => /\ req[w].student_id \in StudentIds
              /\ req[w].student_snapshot = req[w].student_id
        /\ (/\ Done(w)
            /\ req[w].result \in {"BLOCKED_QR_INVALID", "BLOCKED_STUDENT_NOT_FOUND"})
           => req[w].student_snapshot = 0

\* a blocked response with the snapshot and a response without a student
C22_Witness ==
    \E w, u \in Requests :
        /\ Done(w) /\ req[w].result = "BLOCKED_NO_PAYMENT"
        /\ req[w].student_snapshot = req[w].student_id
        /\ req[w].student_id \in StudentIds
        /\ Done(u) /\ req[u].result = "BLOCKED_STUDENT_NOT_FOUND"
        /\ req[u].student_snapshot = 0

(***************************************************************************)
(* Statements about the payment and the exclusion checks.                  *)
(***************************************************************************)
\* a completed request of an approved student, without a fault
ApprovedRun(w) ==
    /\ Done(w)
    /\ req[w].student_id \in StudentIds
    /\ ApprovedNow(req[w].student_id)
    /\ req[w].result # "HTTP_500"

\* C23: the request of an approved student is answered BLOCKED_NO_PAYMENT, with
\* one ScanEvent of that result written, exactly when no VERIFIED payment of
\* the student has cycle_start <= today <= cycle_end
C23_NoPaymentExactly ==
    \A w \in Requests :
        ApprovedRun(w) =>
            /\ req[w].today > 0
            /\ req[w].result = "BLOCKED_NO_PAYMENT"
                   <=> ~PaidOn(req[w].student_id, req[w].today)
            /\ req[w].result = "BLOCKED_NO_PAYMENT"
                   => req[w].written = <<"BLOCKED_NO_PAYMENT">>
            /\ req[w].result # "BLOCKED_NO_PAYMENT"
                   => \A i \in 1..Len(req[w].written) :
                          req[w].written[i] # "BLOCKED_NO_PAYMENT"

\* student 2 was admitted on the one day of the verified window and blocked
\* the day after, covered by payments that are not verified and by the
\* verified payment of student 1
C23_Witness ==
    \E w, u \in Requests :
        /\ ApprovedRun(w) /\ ApprovedRun(u)
        /\ req[w].student_id = 2 /\ req[u].student_id = 2
        /\ req[w].today = 1 /\ req[w].result = "ALLOWED"
        /\ req[u].today = 2 /\ req[u].result = "BLOCKED_NO_PAYMENT"
        /\ \E p \in payments : p.student = 1 /\ p.status = "VERIFIED"
                                /\ p.cycle_start <= 2 /\ 2 <= p.cycle_end
        /\ \E p \in payments : p.student = 2 /\ p.status = "DENIED"
                                /\ p.cycle_start <= 2 /\ 2 <= p.cycle_end

\* C24: the request of an approved, paid student is answered BLOCKED_CUT, with
\* one ScanEvent of that result written, exactly when a cut of the student or
\* a closure covers today, both ends included; the reason is 'Mess closed'
\* when a closure covers today and 'Mess cut applied' otherwise
C24_CutExactly ==
    \A w \in Requests :
        (/\ ApprovedRun(w)
         /\ req[w].today > 0
         /\ PaidOn(req[w].student_id, req[w].today))
        => /\ req[w].result = "BLOCKED_CUT"
                  <=> ExcludedOn(req[w].student_id, req[w].today)
           /\ req[w].result = "BLOCKED_CUT"
                  => /\ req[w].written = <<"BLOCKED_CUT">>
                     /\ req[w].reason =
                            IF \E c \in mess_closures :
                                   c.from_date <= req[w].today /\ req[w].today <= c.to_date
                            THEN "Mess closed" ELSE "Mess cut applied"
           /\ req[w].result # "BLOCKED_CUT"
                  => \A i \in 1..Len(req[w].written) : req[w].written[i] # "BLOCKED_CUT"

\* on a day covered by a cut of student 2 and by no closure, student 1 was
\* admitted and student 2 blocked with the reason of a personal cut
C24_Witness ==
    \E w, u \in Requests :
        /\ ApprovedRun(w) /\ ApprovedRun(u)
        /\ req[w].student_id = 1 /\ req[u].student_id = 2
        /\ req[w].today = req[u].today
        /\ \E c \in mess_cuts : c.student = 2 /\ c.from_date <= req[w].today
                                 /\ req[w].today <= c.to_date
        /\ req[w].result = "ALLOWED"
        /\ req[u].result = "BLOCKED_CUT"
        /\ req[u].reason = "Mess cut applied"

(***************************************************************************)
(* C25: the version of the QR secret is raised by exactly one by every     *)
(* run of the regeneration procedure, also when two runs overlap: it is    *)
(* the initial version plus the number of increments saved so far.         *)
(***************************************************************************)
SavedBy(r) == r.runs + (IF r.pc \in {"saved", "loop"} THEN 1 ELSE 0)

C25_NoIncrementLost ==
    qr_secret_version = 1 + SavedBy(regen) + SavedBy(regen_other)

(***************************************************************************)
(* C27: a payload signed with the deployment's secret under the current    *)
(* version is accepted at every time it is verified: two verifications at  *)
(* different times give the same result, also when the payload has become  *)
(* older than the expiry buffer in between.                                *)
(***************************************************************************)
SignedAndCurrent ==
    codec.secret = QR_SECRET /\ codec.version = codec.current_version

C27_AgeIndependent ==
    (codec.phase = "reverified" /\ SignedAndCurrent)
        => /\ codec.result_later = codec.result
           /\ codec.result_later.msg = MsgValid

C27_Witness ==
    /\ codec.phase = "reverified"
    /\ SignedAndCurrent
    /\ codec.current_time - codec.issued_at <= 3600 * qr_expiry_buffer_hours
    /\ codec.later_time - codec.issued_at > 3600 * qr_expiry_buffer_hours
    /\ codec.result_later.msg = MsgValid

(***************************************************************************)
(* C26: the payments table never holds two rows of one student with the    *)
(* same cycle_start, and no step removes or changes a row: an upload for a *)
(* pair that is on record is refused and leaves the table as it was.       *)
(***************************************************************************)
OnePerCycle(rows) ==
    \A p \in rows, q \in rows :
        (p.student = q.student /\ p.cycle_start = q.cycle_start) => p = q

C26_OnePaymentPerCycle ==
    [][OnePerCycle(payments) /\ OnePerCycle(payments') /\ payments \subseteq payments']_vars

\* an upload was refused: fewer rows were added than uploads were made
C26_Witness ==
    /\ OnePerCycle(payments)
    /\ payments # PaymentTable
    /\ bot_ops > Cardinality(payments) - Cardinality(PaymentTable)

(***************************************************************************)
(* C28: a request is adjudicated only when its Authorization header        *)
(* carries a staff token that is on record, active and not past its        *)
(* expiry on the day the header is read; every other request is refused    *)
(* before scanner_scan runs and writes no scan.                            *)
(***************************************************************************)
StaffTokenValidOn(header, day) ==
    /\ header.scheme = "Bearer"
    /\ \E row \in StaffTokenTable :
           /\ row.token = header.token
           /\ row.active
           /\ (row.expires_at = NoExpiry \/ day <= row.expires_at)

C28_OnlyStaffAdjudicated ==
    \A w \in Requests :
        (req[w].pc # "arrived" /\ req[w].result # "forgotten")
            => \/ StaffTokenValidOn(req[w].auth, req[w].authed_on)
               \/ /\ req[w].pc = "done"
                  /\ req[w].result = "HTTP_403"
                  /\ req[w].written = <<>>

\* the token that expires with day 1 is refused on day 2, after a request
\* that carried it on day 1 was adjudicated
C28_Witness ==
    \E u \in Requests, w \in Requests :
        /\ req[u].auth = Bearer(2) /\ req[u].authed_on = 1
        /\ req[u].pc = "done" /\ req[u].result = "ALLOWED"
        /\ req[w].auth = Bearer(2) /\ req[w].authed_on = 2
        /\ req[w].pc = "done" /\ req[w].result = "HTTP_403"
        /\ Len(scan_events) = 1

(***************************************************************************)
(* C29: every request that has ended carries one result of the closed      *)
(* set, also the request with a meal that is not BREAKFAST, LUNCH or       *)
(* DINNER and the request without qr_data, and these two write no scan.    *)
(***************************************************************************)
ClosedResultSet ==
    {"ALLOWED", "BLOCKED_QR_INVALID", "BLOCKED_STUDENT_NOT_FOUND", "BLOCKED_STATUS",
     "BLOCKED_NO_PAYMENT", "BLOCKED_CUT", "BLOCKED_DUPLICATE", "BLOCKED_INTERNAL_ERROR"}

C29_OneResultOfTheSet ==
    \A w \in Requests :
        Done(w) => /\ req[w].result \in ClosedResultSet
                   /\ (req[w].meal \notin {"BREAKFAST", "LUNCH", "DINNER"}
                          => req[w].written = <<>>)

(***************************************************************************)
(* C30: with the student, payment and exclusion records unchanged during   *)
(* the request, a request is answered ALLOWED only if the payload was      *)
(* verified, the student is on record and approved, a verified payment     *)
(* covers the day the request took as today, no cut of the student and no  *)
(* closure covers that day, and the ledger held no ALLOWED scan of the     *)
(* student and the meal on that day when the duplicate check ran.          *)
(***************************************************************************)
C30_AllowedOnlyIfEligible ==
    \A w \in Requests :
        (Done(w) /\ req[w].result = "ALLOWED")
            => /\ "verify" \notin req[w].failed
               /\ ApprovedNow(req[w].student_id)
               /\ PaidOn(req[w].student_id, req[w].today)
               /\ ~ExcludedOn(req[w].student_id, req[w].today)
               /\ ~req[w].allowed_today

(***************************************************************************)
(* C31: every row of the scan ledger has one of the results ALLOWED,       *)
(* BLOCKED_NO_PAYMENT, BLOCKED_CUT, BLOCKED_STATUS and one of the meals    *)
(* BREAKFAST, LUNCH, DINNER.                                               *)
(***************************************************************************)
C31_LedgerChoices ==
    \A i \in 1..Len(scan_events) :
        /\ scan_events[i].result \in
               {"ALLOWED", "BLOCKED_NO_PAYMENT", "BLOCKED_CUT", "BLOCKED_STATUS"}
        /\ scan_events[i].meal \in {"BREAKFAST", "LUNCH", "DINNER"}

\* the ledger holds an admission and a refusal for a missing payment
C31_Witness ==
    /\ Len(scan_events) = 2
    /\ {scan_events[i].result : i \in 1..2} = {"ALLOWED", "BLOCKED_NO_PAYMENT"}

(***************************************************************************)
(* C32: a meal-scan notification is enqueued only by a request that is     *)
(* answered ALLOWED and has written its ALLOWED scan: at the step that     *)
(* enqueues it the ledger already holds an ALLOWED scan of the student and *)
(* the meal, and no step of a blocked request enqueues one.                *)
(***************************************************************************)
C32_NotifiedAfterAllowedWrite ==
    [][Len(notifications') > Len(notifications)
          => \E w \in Requests :
                 /\ req[w].pc = "notify"
                 /\ req'[w].pc = "done" /\ req'[w].result = "ALLOWED"
                 /\ req[w].written = <<"ALLOWED">>
                 /\ \E i \in 1..Len(scan_events) :
                        /\ scan_events[i].student = req[w].student_id
                        /\ scan_events[i].meal = req[w].meal
                        /\ scan_events[i].result = "ALLOWED"
                 /\ notifications' =
                        Append(notifications, [student |-> req[w].student_id,
                                               meal |-> req[w].meal,
                                               retries |-> 0])]_vars

\* one request was admitted and notified, another was blocked and recorded
C32_Witness ==
    /\ Len(notifications) = 1
    /\ \E w, u \in Requests :
           /\ Done(w) /\ req[w].result = "ALLOWED"
           /\ notifications[1] = [student |-> req[w].student_id, meal |-> req[w].meal,
                                   retries |-> 0]
           /\ Done(u) /\ req[u].written = <<"BLOCKED_NO_PAYMENT">>

(***************************************************************************)
(* C33: send_telegram_message is attempted at most four times for a task:  *)
(* a failed attempt enqueues the task again only while it has made fewer   *)
(* than 3 retries, the attempt that fails after 3 retries ends the task    *)
(* with one NOTIFICATION_FAILED entry, and an attempt that writes          *)
(* NOTIFICATION_SENT ends the task.                                        *)
(***************************************************************************)
C33_BoundedRetries ==
    [][/\ \A i \in 1..Len(notifications') : notifications'[i].retries <= 3
       /\ audit_logs' # audit_logs
             => /\ Len(notifications) > 0
                /\ notifications' = Tail(notifications)
                /\ \E e \in {"NOTIFICATION_SENT", "NOTIFICATION_FAILED"} :
                       /\ audit_logs' = Append(audit_logs,
                              [actor_type |-> "SYSTEM", event_type |-> e])
                       /\ e = "NOTIFICATION_FAILED"
                             => Head(notifications).retries = 3
       /\ (Len(notifications') = Len(notifications)
              /\ notifications' # notifications)
             => /\ Head(notifications).retries < 3
                /\ notifications' =
                       Append(Tail(notifications),
                              [Head(notifications) EXCEPT !.retries = @ + 1])
                /\ audit_logs' = audit_logs]_vars

\* one task was sent, another has failed after its retries
C33_Witness ==
    /\ Len(notifications) = 0
    /\ Len(audit_logs) = 2
    /\ {audit_logs[i].event_type : i \in 1..2} =
           {"NOTIFICATION_SENT", "NOTIFICATION_FAILED"}

(***************************************************************************)
(* C34: no step drops a backup: a task leaves the queue of backup_to_sheets *)
(* only with a BACKUP_SUCCESS entry written for its sheet, or, after 3     *)
(* retries, with one DLQ row of type SHEETS_BACKUP that holds its sheet    *)
(* name and its data.                                                      *)
(***************************************************************************)
C34_BackupNeverDropped ==
    [][Len(backups') < Len(backups)
          => /\ backups' = Tail(backups)
             /\ \/ /\ audit_logs' = Append(audit_logs,
                          [actor_type |-> "SYSTEM", event_type |-> "BACKUP_SUCCESS",
                           sheet_name |-> Head(backups).sheet_name])
                   /\ dlq_logs' = dlq_logs
                \/ /\ Head(backups).retries = 3
                   /\ audit_logs' = audit_logs
                   /\ Len(dlq_logs') = Len(dlq_logs) + 1
                   /\ \A k \in 1..Len(dlq_logs) : dlq_logs'[k] = dlq_logs[k]
                   /\ LET row == dlq_logs'[Len(dlq_logs')]
                      IN  /\ row.operation_type = "SHEETS_BACKUP"
                          /\ row.sheet_name = Head(backups).sheet_name
                          /\ row.data = Head(backups).data]_vars

\* one backup has succeeded and another has ended in the DLQ
C34_Witness ==
    /\ \E i \in 1..Len(audit_logs) : audit_logs[i].event_type = "BACKUP_SUCCESS"
    /\ \E k \in 1..Len(dlq_logs) :
           /\ dlq_logs[k].operation_type = "SHEETS_BACKUP"
           /\ dlq_logs[k].retry_count = 0
           /\ dlq_logs[k].sheet_name = "scan_events"
           /\ dlq_logs[k].processed_at = None

(***************************************************************************)
(* C35: process_dlq_backups dispatches a DLQ row again only when it is of  *)
(* type SHEETS_BACKUP, unprocessed and has retry_count < 5, and raises     *)
(* retry_count by one as it does: no row is dispatched again more than 5   *)
(* times and no retry_count exceeds 5.                                     *)
(***************************************************************************)
C35_RedispatchBounded ==
    [][/\ \A k \in 1..Len(dlq_logs') :
              dlq_logs'[k].retry_count <= 5 /\ dlq_logs'[k].redispatched <= 5
       /\ \A k \in 1..Len(dlq_logs) :
              dlq_logs'[k] # dlq_logs[k]
                  => /\ dlq_logs[k].operation_type = "SHEETS_BACKUP"
                     /\ dlq_logs[k].processed_at = None
                     /\ dlq_logs[k].retry_count < 5
                     /\ dlq_logs'[k] =
                            [dlq_logs[k] EXCEPT !.retry_count = @ + 1,
                                                !.redispatched = @ + 1]
                     /\ backups' = Append(backups,
                            [sheet_name |-> dlq_logs[k].sheet_name,
                             data |-> dlq_logs[k].data,
                             retries |-> 0, redispatch_of |-> k])
       /\ (Len(backups') > Len(backups) /\ backups'[Len(backups')].redispatch_of # 0)
              => LET k == backups'[Len(backups')].redispatch_of
                 IN  dlq_logs'[k].redispatched = dlq_logs[k].redispatched + 1]_vars

(***************************************************************************)
(* C36: a mess cut that the student flow accepts has to_date >= from_date  *)
(* and from_date on or after tomorrow, on or after the day after tomorrow  *)
(* when requested past the cutoff, so it never covers the day of the       *)
(* request; a request violating this creates no MessCut.                   *)
(***************************************************************************)
C36_Acceptable(r) ==
    /\ Len(r.dates) = 2
    /\ r.dates[1] # NotADate /\ r.dates[2] # NotADate
    /\ r.dates[2] >= r.dates[1]
    /\ r.dates[1] > r.today
    /\ r.past_cutoff => r.dates[1] > r.today + 1

C36_CutNeverCoversRequestDay ==
    /\ \A i \in 1..Len(cut_requests) :
           LET r == cut_requests[i]
           IN  r.reply = "Mess cut confirmed"
                   => /\ C36_Acceptable(r)
                      /\ ~(r.dates[1] <= r.today /\ r.today <= r.dates[2])
    /\ mess_cuts = {[student |-> cut_requests[i].student,
                     from_date |-> cut_requests[i].dates[1],
                     to_date |-> cut_requests[i].dates[2]] :
                        i \in {j \in 1..Len(cut_requests) :
                                   C36_Acceptable(cut_requests[j])}}

\* past the cutoff a cut from tomorrow was refused and one from the day after
\* tomorrow was accepted
C36_Witness ==
    /\ Len(cut_requests) = 2
    /\ cut_requests[1].past_cutoff /\ cut_requests[2].past_cutoff
    /\ cut_requests[1].dates = <<cut_requests[1].today + 1, cut_requests[1].today + 2>>
    /\ cut_requests[1].reply # "Mess cut confirmed"
    /\ cut_requests[2].dates = <<cut_requests[2].today + 2, cut_requests[2].today + 2>>
    /\ cut_requests[2].reply = "Mess cut confirmed"
    /\ Cardinality(mess_cuts) = 1

(***************************************************************************)
(* C37: the scans stored offline leave the pending store only after every  *)
(* stored scan was submitted successfully in one retry pass, and a pass    *)
(* that fails keeps the list: no stored scan is dropped without having     *)
(* been submitted.                                                         *)
(***************************************************************************)
C37_NoStoredScanDropped ==
    \A i \in 1..Len(scanned) :
        scanned[i].stored
            => \/ scanned[i].answered
               \/ \E k \in 1..Len(pendingScans) : pendingScans[k] = i

(***************************************************************************)
(* C38: an approve or deny request of a caller whose id is not in the      *)
(* admin list is refused with an access-denied error, leaves the status of *)
(* the student unchanged and dispatches no notification; the request of an *)
(* admin changes the status, to APPROVED or DENIED respectively.           *)
(***************************************************************************)
C38_AdminOnlyAdjudication ==
    \A i \in 1..Len(admin_calls) :
        LET c == admin_calls[i]
        IN  IF c.caller.kind = "session" /\ c.caller.id \in {10}
            THEN c.after = c.new_status
            ELSE /\ c.response \in {"HTTP_403_ACCESS_DENIED",
                                    "HTTP_403_NOT_AUTHENTICATED"}
                 /\ c.after = c.before
                 /\ ~c.notified

====
